---- MODULE Spec2Model ----
(***************************************************************************)
(* Model of the metric layer of the options dashboard                      *)
(* (src/dashboard_utils.py): the chain table produced by the loader and    *)
(* the functions calculate_put_call_ratio, calculate_money_at_risk,        *)
(* calculate_max_pain, calculate_gex, calculate_vega_exposure and          *)
(* calculate_theta_exposure.                                               *)
(*                                                                         *)
(* Numbers.  The program computes on float64 cells.  A cell is modelled    *)
(* as <<v>> (the number v, an integer in a fixed scale) or <<>> (NaN, a    *)
(* missing value).  Prices are in units of 1/PriceScale, so that           *)
(* (Bid + Ask) / 2 is exact; quotients are kept as the pair                *)
(* <<numerator, denominator>>.  Float rounding is not modelled.            *)
(***************************************************************************)
EXTENDS Integers, Sequences, FiniteSets

VARIABLES
    df,        \* the chain table the callers hold
    ret,       \* the value of the last call that returned
    argsort,   \* what Series.argsort has put first for this table, {} before
    kept,      \* an earlier return value the caller has kept, {} columns if none
    callers,   \* the calls in progress, statement by statement
    series,    \* the column handed to a normalizer
    files,     \* the two source files the application reads
    page       \* one run of the application script

vars == <<df, ret, argsort, kept, callers, series, files, page>>

(***************************************************************************)
(* Bounds of the model.                                                    *)
(***************************************************************************)
MaxRows == 3
MaxStrike == 3
\* the longest text of a raw cell, the sample texts apart
MaxLen == 3

(***************************************************************************)
(* Cells: a number or NaN.                                                 *)
(***************************************************************************)
NaN == <<>>
Num(v) == <<v>>
IsNa(c) == c = <<>>
Val(c) == c[1]

\* float multiplication: NaN if either operand is NaN
Mul(a, b) == IF IsNa(a) \/ IsNa(b) THEN NaN ELSE Num(Val(a) * Val(b))
\* unary minus
Neg(a) == IF IsNa(a) THEN NaN ELSE Num(0 - Val(a))
\* Series.fillna(v)
FillNa(a, v) == IF IsNa(a) THEN Num(v) ELSE a

\* Series.sum(): NaN cells are skipped, the sum of nothing is 0
RECURSIVE SeriesSum(_)
SeriesSum(s) ==
    IF s = <<>> THEN 0
    ELSE (IF IsNa(Head(s)) THEN 0 ELSE Val(Head(s))) + SeriesSum(Tail(s))

\* sorted(set of integers): ascending
RECURSIVE SortedSeq(_)
SortedSeq(S) ==
    IF S = {} THEN <<>>
    ELSE LET m == CHOOSE x \in S : \A y \in S : x <= y
         IN <<m>> \o SortedSeq(S \ {m})

\* the contract multiplier: one option controls 100 shares
Multiplier == 100
\* prices (Bid, Ask, MidPrice) are counted in units of 1/PriceScale
PriceScale == 2

(***************************************************************************)
(* The chain table.  df.exists = FALSE is the Python value None;           *)
(* df.columns are the column labels, df.rows the rows in table order.      *)
(***************************************************************************)
LoaderColumns ==
    {"Strike", "Type", "Volume", "OpenInterest", "Bid", "Ask", "MidPrice",
     "Gamma", "Vega", "Theta"}

\* mutant of MidPriceOf: a missing quote counted as 0
MidPriceOfFilled(bid, ask) ==
    Num(((Val(FillNa(bid, 0)) + Val(FillNa(ask, 0))) * PriceScale) \div 2)

\* load_and_preprocess_griegas, "Calcular Mid Price": (Bid + Ask) / 2, a
\* price in units of 1/PriceScale from Bid and Ask in whole units
MidPriceOf(bid, ask) ==
    IF IsNa(bid) \/ IsNa(ask) THEN NaN
    ELSE Num(((Val(bid) + Val(ask)) * PriceScale) \div 2)

\* one row of the table returned by load_and_preprocess_griegas
LoadRow(strike, type, volume, oi, bid, ask, gamma, vega, theta) ==
    [Strike |-> strike, Type |-> type, Volume |-> volume, OpenInterest |-> oi,
     Bid |-> bid, Ask |-> ask, MidPrice |-> MidPriceOf(bid, ask),
     Gamma |-> gamma, Vega |-> vega, Theta |-> theta]

NoneTable == [exists |-> FALSE, columns |-> {}, rows |-> <<>>]
\* pd.DataFrame(): no columns, no rows
BareTable == [exists |-> TRUE, columns |-> {}, rows |-> <<>>]
Table(rows) == [exists |-> TRUE, columns |-> LoaderColumns, rows |-> rows]

\* DataFrame.empty
IsEmpty(t) == t.columns = {} \/ Len(t.rows) = 0

\* all tables of at most MaxRows rows drawn from the row set R
TablesOver(R) == UNION {[1..n -> R] : n \in 0..MaxRows}

Strikes == 1..MaxStrike
Types == {"call", "put"}

\* df['Strike'].unique() without NaN, as a set
StrikeSet(rows) ==
    {Val(rows[i].Strike) : i \in {j \in 1..Len(rows) : ~IsNa(rows[j].Strike)}}

(***************************************************************************)
(* Return values.  status "raise" is a Python exception leaving the        *)
(* function; table is the returned DataFrame's rows (<<>> for an empty     *)
(* DataFrame); scalar is the returned strike (<<>> for None).              *)
(***************************************************************************)
NoRet == [fn |-> "none", status |-> "none", table |-> <<>>, scalar |-> <<>>]
Returned(f, t, s) == [fn |-> f, status |-> "ok", table |-> t, scalar |-> s]
Raised(f) == [fn |-> f, status |-> "raise", table |-> <<>>, scalar |-> <<>>]

(***************************************************************************)
(* calculate_max_pain                                                      *)
(***************************************************************************)
\* df_griegas['Type'] == 'call' and == 'put', the masks of df[mask]
IsCall(r) == r.Type = "call"
IsPut(r) == r.Type = "put"

Max0(x) == IF x > 0 THEN x ELSE 0

\* mutant of CallPayoff: the payoff is not floored at 0
CallPayoffUnclamped(K, r) ==
    IF IsNa(r.Strike) \/ IsNa(r.OpenInterest) THEN NaN
    ELSE Num((K - Val(r.Strike)) * Val(r.OpenInterest))

\* np.maximum(0, K - calls['Strike']) * calls['OpenInterest'], one cell
CallPayoff(K, r) ==
    IF IsNa(r.Strike) \/ IsNa(r.OpenInterest) THEN NaN
    ELSE Num(Max0(K - Val(r.Strike)) * Val(r.OpenInterest))

\* np.maximum(0, puts['Strike'] - K) * puts['OpenInterest'], one cell
PutPayoff(K, r) ==
    IF IsNa(r.Strike) \/ IsNa(r.OpenInterest) THEN NaN
    ELSE Num(Max0(Val(r.Strike) - K) * Val(r.OpenInterest))

\* TotalCashValue of the candidate settlement price K
TotalCashValue(rows, K) ==
    LET calls == SelectSeq(rows, IsCall)
        puts == SelectSeq(rows, IsPut)
        callSide == SeriesSum([i \in 1..Len(calls) |-> CallPayoff(K, calls[i])])
        putSide == SeriesSum([i \in 1..Len(puts) |-> PutPayoff(K, puts[i])])
    IN (callSide + putSide) * Multiplier

\* mutant of IdxMin: the position of the last minimal value
IdxMinLast(s) ==
    CHOOSE i \in 1..Len(s) :
        /\ \A j \in 1..Len(s) : s[i] <= s[j]
        /\ \A j \in (i + 1)..Len(s) : s[j] > s[i]

\* Series.idxmin(): the position of the first minimal value
IdxMin(s) ==
    CHOOSE i \in 1..Len(s) :
        /\ \A j \in 1..Len(s) : s[i] <= s[j]
        /\ \A j \in 1..(i - 1) : s[j] > s[i]

\* the return value of calculate_max_pain: <<strike>> or <<>> (None).  The
\* candidate strikes are taken non-missing: the callers drop the rows of
\* missing Strike, Type or OpenInterest before the call (src/app.py:117).
MaxPainStrike(t) ==
    IF ~t.exists \/ IsEmpty(t) THEN <<>>
    ELSE LET strikes == SortedSeq(StrikeSet(t.rows))
             values == [i \in 1..Len(strikes) |-> TotalCashValue(t.rows, strikes[i])]
         IN IF Len(strikes) = 0 THEN <<>>
            ELSE <<strikes[IdxMin(values)]>>

\* the columns calculate_max_pain subscripts
MaxPainColumns == {"Strike", "Type", "OpenInterest"}

calculate_max_pain ==
    /\ ret' = IF df.exists /\ ~IsEmpty(df) /\ ~(MaxPainColumns \subseteq df.columns)
              THEN Raised("max_pain")
              ELSE Returned("max_pain", <<>>, MaxPainStrike(df))
    /\ UNCHANGED df

(***************************************************************************)
(* Grouping: df.groupby('Strike') drops the rows whose key is NaN and      *)
(* yields the groups in ascending key order.                               *)
(***************************************************************************)
\* mutant of GroupKeys: one key per row, equal keys not merged
GroupKeysPerRow(rows) ==
    LET HasKey(r) == ~IsNa(r.Strike)
        keyed == SelectSeq(rows, HasKey)
    IN [i \in 1..Len(keyed) |-> Val(keyed[i].Strike)]

\* the group keys, ascending
GroupKeys(rows) == SortedSeq(StrikeSet(rows))

\* the positions of the rows of group k
GroupIndex(rows, k) ==
    {i \in 1..Len(rows) : ~IsNa(rows[i].Strike) /\ Val(rows[i].Strike) = k}

\* the rows of group k, in table order
GroupRows(rows, k) ==
    LET AtStrike(r) == ~IsNa(r.Strike) /\ Val(r.Strike) = k
    IN SelectSeq(rows, AtStrike)

\* groupby('Strike')[column].sum() at key k; cells is the column, one cell
\* per row of the table
GroupSum(rows, cells, k) ==
    LET AtStrike(i) == i \in GroupIndex(rows, k)
        idx == SelectSeq([i \in 1..Len(rows) |-> i], AtStrike)
    IN SeriesSum([j \in 1..Len(idx) |-> cells[idx[j]]])

(***************************************************************************)
(* calculate_put_call_ratio                                                *)
(***************************************************************************)
\* group[group['Type'] == type][column].sum()
SideSum(g, type, column) ==
    LET OfType(r) == r.Type = type
        side == SelectSeq(g, OfType)
    IN SeriesSum([j \in 1..Len(side) |-> side[j][column]])

\* mutant of Ratio: calls over puts
RatioInverted(puts, calls) == IF calls > 0 THEN <<calls, puts>> ELSE NaN

\* mutant of Ratio: 0 reported where the quotient is undefined
RatioZero(puts, calls) == IF calls > 0 THEN <<puts, calls>> ELSE <<0, 1>>

\* puts / calls if calls > 0 else np.nan; the quotient p/c is <<p, c>>
Ratio(puts, calls) == IF calls > 0 THEN <<puts, calls>> ELSE NaN

PCVolumeRatio(g) ==
    Ratio(SideSum(g, "put", "Volume"), SideSum(g, "call", "Volume"))

PCOIRatio(g) ==
    Ratio(SideSum(g, "put", "OpenInterest"), SideSum(g, "call", "OpenInterest"))

\* the loop over the groups, group_by_strike=True
RatiosByStrike(rows) ==
    LET keys == GroupKeys(rows)
    IN [i \in 1..Len(keys) |->
          LET g == GroupRows(rows, keys[i])
          IN [Strike |-> keys[i],
              PC_Volume_Ratio |-> PCVolumeRatio(g),
              PC_OI_Ratio |-> PCOIRatio(g)]]

\* the loop over the one group of the artificial key 'Total'
RatiosTotal(rows) ==
    <<[Level |-> "Total",
       PC_Volume_Ratio |-> PCVolumeRatio(rows),
       PC_OI_Ratio |-> PCOIRatio(rows)]>>

\* the columns the loop body reads
RatioColumns == {"Type", "Volume", "OpenInterest"}

calculate_put_call_ratio(group_by_strike) ==
    LET f == IF group_by_strike THEN "pcr_strike" ELSE "pcr_total" IN
    IF ~df.exists \/ IsEmpty(df)
    THEN /\ ret' = Returned(f, <<>>, <<>>)
         /\ UNCHANGED df
    ELSE IF group_by_strike
    THEN /\ UNCHANGED df
         /\ ret' = IF "Strike" \notin df.columns THEN Raised(f)
                   ELSE IF StrikeSet(df.rows) = {} THEN Returned(f, <<>>, <<>>)
                   ELSE IF ~(RatioColumns \subseteq df.columns) THEN Raised(f)
                   ELSE Returned(f, RatiosByStrike(df.rows), <<>>)
    ELSE IF ~(RatioColumns \subseteq df.columns)
    THEN \* the KeyError leaves the loop before the column is dropped
         /\ df' = [df EXCEPT !.columns = @ \cup {"Total"}]
         /\ ret' = Raised(f)
    ELSE \* 'Total' is added, grouped on and dropped again
         /\ df' = [df EXCEPT !.columns = (@ \cup {"Total"}) \ {"Total"}]
         /\ ret' = Returned(f, RatiosTotal(df.rows), <<>>)

(***************************************************************************)
(* calculate_money_at_risk                                                 *)
(***************************************************************************)
\* df['OpenInterest'] * df['MidPrice'].fillna(0) * 100, one cell
MoneyAtRiskCell(r) ==
    Mul(Mul(r.OpenInterest, FillNa(r.MidPrice, 0)), Num(Multiplier))

\* mutant of MoneyAtRiskTable: the column MoneyAtRisk left by an earlier call
\* is added to, not overwritten
MoneyAtRiskTableAccumulated(rows) ==
    LET keys == GroupKeys(rows)
        cells == [i \in 1..Len(rows) |->
                    IF "MoneyAtRisk" \in df.columns
                    THEN Mul(Num(2), MoneyAtRiskCell(rows[i]))
                    ELSE MoneyAtRiskCell(rows[i])]
    IN [i \in 1..Len(keys) |->
          [Strike |-> keys[i], MoneyAtRisk |-> GroupSum(rows, cells, keys[i])]]

\* df.groupby('Strike')['MoneyAtRisk'].sum().reset_index()
MoneyAtRiskTable(rows) ==
    LET keys == GroupKeys(rows)
        cells == [i \in 1..Len(rows) |-> MoneyAtRiskCell(rows[i])]
    IN [i \in 1..Len(keys) |->
          [Strike |-> keys[i], MoneyAtRisk |-> GroupSum(rows, cells, keys[i])]]

calculate_money_at_risk ==
    IF ~df.exists \/ IsEmpty(df) \/ "OpenInterest" \notin df.columns
       \/ "MidPrice" \notin df.columns
    THEN /\ ret' = Returned("money_at_risk", <<>>, <<>>)
         /\ UNCHANGED df
    ELSE /\ df' = [df EXCEPT !.columns = @ \cup {"MidPriceFilled", "MoneyAtRisk"}]
         /\ ret' = IF "Strike" \notin df.columns THEN Raised("money_at_risk")
                   ELSE Returned("money_at_risk", MoneyAtRiskTable(df.rows), <<>>)

(***************************************************************************)
(* calculate_gex                                                           *)
(***************************************************************************)
\* mutant of DealerGEXCell: the holders' GEX_ind, not negated
DealerGEXCellUnsigned(r) == Mul(Mul(r.Gamma, r.OpenInterest), Num(Multiplier))

\* -df['Gamma'] * df['OpenInterest'] * 100, one cell
DealerGEXCell(r) == Mul(Mul(Neg(r.Gamma), r.OpenInterest), Num(Multiplier))

\* mutant of CumSum: the row's own value, nothing carried
CumSumNoCarry(t, i) == IF i = 0 THEN 0 ELSE t[i].DealerGEX

\* Series.cumsum() of the column DealerGEX of the sorted table, at row i
RECURSIVE CumSum(_, _)
CumSum(t, i) == IF i = 0 THEN 0 ELSE CumSum(t, i - 1) + t[i].DealerGEX

\* gex_per_strike: groupby('Strike')['DealerGEX'].sum().reset_index()
GexPerStrike(rows) ==
    LET keys == GroupKeys(rows)
        cells == [i \in 1..Len(rows) |-> DealerGEXCell(rows[i])]
    IN [i \in 1..Len(keys) |->
          [Strike |-> keys[i], DealerGEX |-> GroupSum(rows, cells, keys[i])]]

\* mutant of SortByStrike: descending order
RECURSIVE SortByStrikeDescending(_)
SortByStrikeDescending(t) ==
    IF t = <<>> THEN <<>>
    ELSE LET m == CHOOSE i \in 1..Len(t) : \A j \in 1..Len(t) : t[i].Strike >= t[j].Strike
             rest == [j \in 1..(Len(t) - 1) |-> IF j < m THEN t[j] ELSE t[j + 1]]
         IN <<t[m]>> \o SortByStrikeDescending(rest)

\* gex_per_strike.sort_values(by='Strike'): insertion into ascending order
RECURSIVE SortByStrike(_)
SortByStrike(t) ==
    IF t = <<>> THEN <<>>
    ELSE LET m == CHOOSE i \in 1..Len(t) :
                     /\ \A j \in 1..Len(t) : t[i].Strike <= t[j].Strike
                     /\ \A j \in 1..(i - 1) : t[j].Strike > t[i].Strike
             rest == [j \in 1..(Len(t) - 1) |-> IF j < m THEN t[j] ELSE t[j + 1]]
         IN <<t[m]>> \o SortByStrike(rest)

\* gex_per_strike_sorted with its column CumulativeDealerGEX
GexTable(rows) ==
    LET sorted == SortByStrike(GexPerStrike(rows))
    IN [i \in 1..Len(sorted) |->
          [Strike |-> sorted[i].Strike,
           DealerGEX |-> sorted[i].DealerGEX,
           CumulativeDealerGEX |-> CumSum(sorted, i)]]

Abs(x) == IF x < 0 THEN 0 - x ELSE x

\* above_zero and below_zero are both non-empty
HasBothSigns(t) ==
    /\ \E i \in 1..Len(t) : t[i].DealerGEX > 0
    /\ \E i \in 1..Len(t) : t[i].DealerGEX < 0

\* mutant of ArgSortFirst: argsort of the signed values, .abs() forgotten
ArgSortFirstSigned(t) ==
    {i \in 1..Len(t) : \A j \in 1..Len(t) : t[i].DealerGEX <= t[j].DealerGEX}

\* DealerGEX.abs().argsort()[:1]: the position argsort puts first.  The
\* default sort kind is not stable, so among equal keys any may come first.
ArgSortFirst(t) ==
    {i \in 1..Len(t) : \A j \in 1..Len(t) : Abs(t[i].DealerGEX) <= Abs(t[j].DealerGEX)}

\* mutant of AbsIdxMin: idxmin of the signed values, .abs() forgotten
SignedIdxMin(t) == IdxMin([i \in 1..Len(t) |-> t[i].DealerGEX])

\* DealerGEX.abs().idxmin(): the first position of the minimum
AbsIdxMin(t) == IdxMin([i \in 1..Len(t) |-> Abs(t[i].DealerGEX)])

\* mutant of GammaFlipPoints: no fallback when the signs do not mix
GammaFlipPointsNoFallback(t) ==
    IF HasBothSigns(t)
    THEN {<<t[i].Strike>> : i \in ArgSortFirst(t)}
    ELSE {<<>>}

\* the values gamma_flip_point can have at the return: <<strike>> or <<>>
GammaFlipPoints(t) ==
    IF HasBothSigns(t)
    THEN {<<t[i].Strike>> : i \in ArgSortFirst(t)}
    ELSE IF t # <<>> THEN {<<t[AbsIdxMin(t)].Strike>>}
    ELSE {<<>>}

calculate_gex ==
    IF ~df.exists \/ IsEmpty(df) \/ "Gamma" \notin df.columns
       \/ "OpenInterest" \notin df.columns
    THEN /\ ret' = Returned("gex", <<>>, <<>>)
         /\ UNCHANGED <<df, argsort>>
    ELSE /\ df' = [df EXCEPT !.columns = @ \cup {"GEX_ind", "DealerGEX"}]
         /\ IF "Strike" \notin df.columns
            THEN ret' = Raised("gex") /\ UNCHANGED argsort
            ELSE \* argsort is a function of the column: the same column is
                 \* sorted the same way at every call
                 \E flip \in GammaFlipPoints(GexTable(df.rows)) :
                    /\ argsort \subseteq {flip}
                    /\ argsort' = {flip}
                    /\ ret' = Returned("gex", GexTable(df.rows), flip)

(***************************************************************************)
(* calculate_vega_exposure, calculate_theta_exposure                       *)
(***************************************************************************)
\* mutant of DealerExposureCell: the holders' exposure, not negated
DealerExposureCellUnsigned(r, greek) ==
    Mul(Mul(r[greek], r.OpenInterest), Num(Multiplier))

\* -df[greek] * df['OpenInterest'] * 100, one cell
DealerExposureCell(r, greek) ==
    Mul(Mul(Neg(r[greek]), r.OpenInterest), Num(Multiplier))

\* df.groupby('Strike')[exposure].sum() at key k
ExposureSum(rows, greek, k) ==
    GroupSum(rows, [i \in 1..Len(rows) |-> DealerExposureCell(rows[i], greek)], k)

\* vega_exposure_strike
VegaExposureTable(rows) ==
    LET keys == GroupKeys(rows)
    IN [i \in 1..Len(keys) |->
          [Strike |-> keys[i],
           DealerVegaExposure |-> ExposureSum(rows, "Vega", keys[i])]]

\* theta_exposure_strike
ThetaExposureTable(rows) ==
    LET keys == GroupKeys(rows)
    IN [i \in 1..Len(keys) |->
          [Strike |-> keys[i],
           DealerThetaExposure |-> ExposureSum(rows, "Theta", keys[i])]]

\* neither function tests its argument: None is subscripted (TypeError) and
\* an absent column is looked up (KeyError)
DealerExposure(f, greek, column, result) ==
    IF ~df.exists
    THEN /\ ret' = Raised(f)
         /\ UNCHANGED df
    ELSE IF ~({greek, "OpenInterest"} \subseteq df.columns)
    THEN /\ ret' = Raised(f)
         /\ UNCHANGED df
    ELSE /\ df' = [df EXCEPT !.columns = @ \cup {column}]
         /\ ret' = IF "Strike" \notin df.columns THEN Raised(f)
                   ELSE Returned(f, result, <<>>)

calculate_vega_exposure ==
    DealerExposure("vega", "Vega", "DealerVegaExposure", VegaExposureTable(df.rows))

calculate_theta_exposure ==
    DealerExposure("theta", "Theta", "DealerThetaExposure", ThetaExposureTable(df.rows))

(***************************************************************************)
(* The value normalizers clean_numeric_column and clean_percentage_column. *)
(* A raw column is a sequence of values, each a Python str (its text a      *)
(* sequence of characters) or a float (a number or NaN); the column has     *)
(* dtype object when it holds a str.  A number is the pair <<n, d>>, n / d   *)
(* with d a power of ten, and NaN is <<>>.                                   *)
(***************************************************************************)
Str(text) == [kind |-> "str", text |-> text, value |-> <<>>]
Float(v) == [kind |-> "float", text |-> <<>>, value |-> v]

\* series.dtype == 'object'
IsObject(s) == \E i \in 1..Len(s) : s[i].kind = "str"

DigitChars == <<"0", "1", "2", "3", "4", "5", "6", "7", "8", "9">>
IsDigit(c) == \E i \in 1..Len(DigitChars) : DigitChars[i] = c
DigitValue(c) == (CHOOSE i \in 1..Len(DigitChars) : DigitChars[i] = c) - 1

RECURSIVE DigitsValue(_)
\* the integer written by a sequence of digits
DigitsValue(ds) ==
    IF ds = <<>> THEN 0
    ELSE DigitsValue(SubSeq(ds, 1, Len(ds) - 1)) * 10 + DigitValue(ds[Len(ds)])

RECURSIVE Pow10(_)
Pow10(k) == IF k = 0 THEN 1 ELSE 10 * Pow10(k - 1)

\* pd.to_numeric on a str: an optional sign, then digits with at most one
\* decimal point and at least one digit
Unsigned(text) == IF text # <<>> /\ text[1] = "-" THEN Tail(text) ELSE text
Parses(text) ==
    LET body == Unsigned(text)
    IN /\ \A i \in 1..Len(body) : IsDigit(body[i]) \/ body[i] = "."
       /\ Cardinality({i \in 1..Len(body) : body[i] = "."}) <= 1
       /\ \E i \in 1..Len(body) : IsDigit(body[i])

\* the number a parsable text writes
ParseValue(text) ==
    LET body == Unsigned(text)
        dots == {i \in 1..Len(body) : body[i] = "."}
        places == IF dots = {} THEN 0 ELSE Len(body) - (CHOOSE i \in dots : TRUE)
        magnitude == DigitsValue(SelectSeq(body, IsDigit))
    IN <<IF body # text THEN 0 - magnitude ELSE magnitude, Pow10(places)>>

\* pd.to_numeric(series, errors='coerce'), one value: a str is parsed, or
\* becomes NaN when it does not parse; a float stays
ToNumeric(e) ==
    IF e.kind = "str"
    THEN (IF Parses(e.text) THEN ParseValue(e.text) ELSE NaN)
    ELSE e.value

\* mutant of RemoveCommas: the commas stay
KeepCommas(text) == text

\* str.replace(',', '', regex=False)
RemoveCommas(text) ==
    LET NotComma(c) == c # ","
    IN SelectSeq(text, NotComma)

RECURSIVE RStripPercent(_)
\* str.rstrip('%'): every trailing '%' is stripped
RStripPercent(text) ==
    IF text # <<>> /\ text[Len(text)] = "%"
    THEN RStripPercent(SubSeq(text, 1, Len(text) - 1))
    ELSE text

\* ['unch', 'N/A', '']
MissingTokens == {<<"u", "n", "c", "h">>, <<"N", "/", "A">>, <<>>}

\* series.replace(['unch', 'N/A', ''], np.nan), one value
ReplaceTokens(e) ==
    IF e.kind = "str" /\ e.text \in MissingTokens THEN Float(NaN) ELSE e

\* series.str.replace(',', ''), one value: the .str methods give NaN for a
\* value that is no str
StrReplaceCommas(e) ==
    IF e.kind = "str" THEN Str(RemoveCommas(e.text)) ELSE Float(NaN)

\* series.str.rstrip('%'), one value
StrRStripPercent(e) ==
    IF e.kind = "str" THEN Str(RStripPercent(e.text)) ELSE Float(NaN)

\* mutant of Div100: the percentage number itself
NotDivided(v) == v

\* ... / 100.0
Div100(v) == IF IsNa(v) THEN NaN ELSE <<v[1], v[2] * 100>>

\* the Series clean_numeric_column returns
CleanNumeric(s) ==
    LET a == IF IsObject(s)
             THEN [i \in 1..Len(s) |-> ReplaceTokens(StrReplaceCommas(s[i]))]
             ELSE s
    IN [i \in 1..Len(s) |-> ToNumeric(a[i])]

\* the Series clean_percentage_column returns
CleanPercentage(s) ==
    LET a == IF IsObject(s)
             THEN [i \in 1..Len(s) |-> ReplaceTokens(StrRStripPercent(s[i]))]
             ELSE s
    IN [i \in 1..Len(s) |-> Div100(ToNumeric(a[i]))]

clean_numeric_column ==
    /\ ret' = Returned("clean_numeric", CleanNumeric(series), <<>>)
    /\ UNCHANGED <<df, argsort, kept, callers, series, files, page>>

clean_percentage_column ==
    /\ ret' = Returned("clean_percentage", CleanPercentage(series), <<>>)
    /\ UNCHANGED <<df, argsort, kept, callers, series, files, page>>

(***************************************************************************)
(* Calls in progress on one table.  A call runs the statements of its      *)
(* function one at a time, and between two of them the calls of other      *)
(* callers run theirs.  Only the statements that read or write a column    *)
(* some function adds or drops are kept apart; what a function computes    *)
(* from the loaded columns alone is part of the statement that returns.    *)
(* DataFrame.drop(..., inplace=True) is two steps of the library: it       *)
(* builds the table without the column, then puts it in place of the       *)
(* table's contents.                                                       *)
(***************************************************************************)
Assign(needs, columns) == [op |-> "assign", needs |-> needs, columns |-> columns]
Read(needs) == [op |-> "read", needs |-> needs, columns |-> {}]
DropBuild(columns) == [op |-> "drop", needs |-> columns, columns |-> columns]
DropInstall == [op |-> "install", needs |-> {}, columns |-> {}]

\* the statements of function f, in program order, each with the columns it
\* looks up (a KeyError if one is absent) and the columns it assigns or drops
Statements(f) ==
    CASE f = "pcr_strike" -> <<Read({"Strike"} \cup RatioColumns)>>
      [] f = "pcr_total" ->
            <<Assign({}, {"Total"}),
              Read({"Total"} \cup RatioColumns),
              DropBuild({"Total"}),
              DropInstall>>
      [] f = "money_at_risk" ->
            <<Assign({"MidPrice"}, {"MidPriceFilled"}),
              Assign({"OpenInterest", "MidPriceFilled"}, {"MoneyAtRisk"}),
              Read({"Strike", "MoneyAtRisk"})>>
      [] f = "max_pain" -> <<Read(MaxPainColumns)>>
      [] f = "gex" ->
            <<Assign({"Gamma", "OpenInterest"}, {"GEX_ind"}),
              Assign({"Gamma", "OpenInterest"}, {"DealerGEX"}),
              Read({"Strike", "DealerGEX"})>>
      [] f = "vega" ->
            <<Assign({"Vega", "OpenInterest"}, {"DealerVegaExposure"}),
              Read({"Strike", "DealerVegaExposure"})>>
      [] f = "theta" ->
            <<Assign({"Theta", "OpenInterest"}, {"DealerThetaExposure"}),
              Read({"Strike", "DealerThetaExposure"})>>

\* the guard at the head of f returns the empty result
GuardReturns(f) ==
    CASE f \in {"pcr_strike", "pcr_total", "max_pain"} -> ~df.exists \/ IsEmpty(df)
      [] f = "money_at_risk" ->
            ~df.exists \/ IsEmpty(df) \/ "OpenInterest" \notin df.columns
            \/ "MidPrice" \notin df.columns
      [] f = "gex" ->
            ~df.exists \/ IsEmpty(df) \/ "Gamma" \notin df.columns
            \/ "OpenInterest" \notin df.columns
      [] OTHER -> FALSE

\* the values the return statement of f can return on the rows of the table
ReturnValues(f) ==
    CASE f = "pcr_strike" -> {Returned(f, RatiosByStrike(df.rows), <<>>)}
      [] f = "pcr_total" -> {Returned(f, RatiosTotal(df.rows), <<>>)}
      [] f = "money_at_risk" -> {Returned(f, MoneyAtRiskTable(df.rows), <<>>)}
      [] f = "max_pain" -> {Returned(f, <<>>, MaxPainStrike(df))}
      [] f = "gex" ->
            {Returned(f, GexTable(df.rows), flip) :
                flip \in {x \in GammaFlipPoints(GexTable(df.rows)) : argsort \subseteq {x}}}
      [] f = "vega" -> {Returned(f, VegaExposureTable(df.rows), <<>>)}
      [] f = "theta" -> {Returned(f, ThetaExposureTable(df.rows), <<>>)}

\* a call of f about to run its first statement; pc = 0 once it has returned
\* or raised, built is the table an in-place drop has built
Call(f) == [fn |-> f, pc |-> 1, built |-> {}, out |-> NoRet]

\* caller i runs the next statement of its call
Statement(i) ==
    LET c == callers[i]
        st == Statements(c.fn)[c.pc]
        last == c.pc = Len(Statements(c.fn))
        Leave(r) ==
            /\ callers' = [callers EXCEPT ![i] = [@ EXCEPT !.pc = 0, !.out = r]]
            /\ ret' = r
    IN /\ c.pc > 0
       /\ IF c.pc = 1 /\ GuardReturns(c.fn)
          THEN Leave(Returned(c.fn, <<>>, <<>>)) /\ UNCHANGED <<df, argsort>>
          ELSE IF ~df.exists \/ ~(st.needs \subseteq df.columns)
          THEN Leave(Raised(c.fn)) /\ UNCHANGED <<df, argsort>>
          ELSE /\ df' = CASE st.op = "assign" ->
                               [df EXCEPT !.columns = @ \cup st.columns]
                          [] st.op = "install" -> [df EXCEPT !.columns = c.built]
                          [] OTHER -> df
               /\ IF last
                  THEN \E r \in ReturnValues(c.fn) :
                          /\ Leave(r)
                          /\ argsort' = IF c.fn = "gex" THEN {r.scalar} ELSE argsort
                  ELSE /\ callers' =
                            [callers EXCEPT ![i] =
                                [@ EXCEPT !.pc = c.pc + 1,
                                          !.built = IF st.op = "drop"
                                                    THEN df.columns \ st.columns
                                                    ELSE @]]
                       /\ UNCHANGED <<ret, argsort>>

(***************************************************************************)
(* Specifications.  Each draws the table the caller holds from a bounded   *)
(* set of loaded tables and applies the functions under study to it.       *)
(* Cells a function does not read are held at one value.                   *)
(***************************************************************************)
\* no source file is read and no page is run while the functions are
\* called on their own
NoFile == [readable |-> FALSE, columns |-> {}, rows |-> <<>>]
NoFiles == [griegas |-> NoFile, inusual |-> NoFile]
NoPage ==
    [pc |-> "off", df_griegas |-> NoneTable, df_inusual |-> NoneTable,
     df_griegas_display |-> NoneTable, selected_exp_date |-> <<>>,
     fault |-> "", nodata |-> FALSE, invoked |-> <<>>, rendered |-> {},
     flow |-> "none", min_premium |-> 0, selected_sides |-> {},
     selected_oc |-> {}, df_inusual_filtered |-> <<>>]

\* nothing kept yet; a kept value goes with the columns the table had then
NoKept == [value |-> NoRet, columns |-> {}]

\* first = f(df): the caller keeps the value just returned, to compare a
\* later return of the same function with it
Keep ==
    /\ kept = NoKept
    /\ ret # NoRet
    /\ kept' = [value |-> ret, columns |-> df.columns]
    /\ UNCHANGED <<df, ret, argsort, callers, series, files, page>>

\* before the first call
NothingCalled ==
    /\ ret = NoRet
    /\ argsort = {}
    /\ kept = NoKept
    /\ callers = <<>>
    /\ series = <<>>
    /\ files = NoFiles
    /\ page = NoPage

\* what a call made by the one caller of the table leaves alone
sequential == <<kept, callers, series, files, page>>

\* <<Type, OpenInterest>> of the max-pain chains: calls and puts, open
\* interests of two sizes, and a row of no open interest
MaxPainCells == {<<"call", 0>>, <<"call", 1>>, <<"call", 2>>, <<"put", 1>>, <<"put", 2>>}

MaxPainRows ==
    {LoadRow(Num(k), c[1], Num(0), Num(c[2]), Num(1), Num(1), Num(1), Num(1), Num(0 - 1)) :
        k \in Strikes, c \in MaxPainCells}

InitMaxPain ==
    /\ df \in {Table(rows) : rows \in TablesOver(MaxPainRows)}
    /\ NothingCalled

NextMaxPain == calculate_max_pain /\ UNCHANGED <<argsort, sequential>>

SpecMaxPain == InitMaxPain /\ [][NextMaxPain]_vars

\* <<Type, Gamma, OpenInterest>> of the GEX chains: dealer gamma of either
\* sign, two magnitudes, and a row of no open interest
GexCells ==
    {<<"call", 0 - 1, 2>>, <<"put", 0 - 1, 1>>, <<"put", 1, 1>>, <<"call", 3, 1>>,
     <<"put", 3, 0>>}

GexRows ==
    {LoadRow(Num(k), c[1], Num(0), Num(c[3]), Num(1), Num(1), Num(c[2]), Num(1), Num(0 - 1)) :
        k \in Strikes, c \in GexCells}

InitGex ==
    /\ df \in {Table(rows) : rows \in TablesOver(GexRows)}
    /\ NothingCalled

NextGex == calculate_gex /\ UNCHANGED sequential

SpecGex == InitGex /\ [][NextGex]_vars

\* <<Volume, OpenInterest>> of the put/call chains: either one zero, or both
\* positive
RatioCells == {<<0, 1>>, <<1, 0>>, <<1, 2>>}

RatioRows ==
    {LoadRow(Num(k), ty, Num(c[1]), Num(c[2]), Num(1), Num(1), Num(1), Num(1), Num(0 - 1)) :
        k \in Strikes, ty \in Types, c \in RatioCells}

InitRatio ==
    /\ df \in {Table(rows) : rows \in TablesOver(RatioRows)}
    /\ NothingCalled

NextRatio ==
    /\ \E group_by_strike \in BOOLEAN : calculate_put_call_ratio(group_by_strike)
    /\ UNCHANGED <<argsort, sequential>>

SpecRatio == InitRatio /\ [][NextRatio]_vars

\* <<Bid, Ask>> in tenths, either possibly missing, and open interests of the
\* money-at-risk chains
QuoteCells == {<<Num(10), Num(12)>>, <<NaN, Num(12)>>, <<Num(10), NaN>>}
MoneyOIs == {3, 10}

MoneyRows ==
    {LoadRow(Num(k), "call", Num(0), Num(q), c[1], c[2], Num(1), Num(1), Num(0 - 1)) :
        k \in Strikes, q \in MoneyOIs, c \in QuoteCells}

InitMoney ==
    /\ df \in {Table(rows) : rows \in TablesOver(MoneyRows)}
    /\ NothingCalled

NextMoney == calculate_money_at_risk /\ UNCHANGED <<argsort, sequential>>

SpecMoney == InitMoney /\ [][NextMoney]_vars

\* <<Vega, Theta, OpenInterest>> of the exposure chains: vega and theta of
\* either sign and different magnitudes, and a row of no open interest
ExposureCells ==
    {<<1, 0 - 1, 2>>, <<2, 0 - 3, 1>>, <<1, 0 - 2, 0>>, <<0 - 1, 2, 3>>}

ExposureRows ==
    {LoadRow(Num(k), "call", Num(0), Num(c[3]), Num(1), Num(1), Num(1), Num(c[1]), Num(c[2])) :
        k \in Strikes, c \in ExposureCells}

InitExposure ==
    /\ df \in {Table(rows) : rows \in TablesOver(ExposureRows)}
    /\ NothingCalled

NextExposure ==
    \/ calculate_vega_exposure /\ UNCHANGED <<argsort, sequential>>
    \/ calculate_theta_exposure /\ UNCHANGED <<argsort, sequential>>

SpecExposure == InitExposure /\ [][NextExposure]_vars

\* the tables two callers share: a call row at the odd strikes, a put row at
\* the even ones
SharedRows ==
    {LoadRow(Num(k), IF k % 2 = 1 THEN "call" ELSE "put", Num(1), Num(2), Num(10), Num(12),
             Num(1), Num(1), Num(0 - 1)) : k \in Strikes}

Callers == {"a", "b"}
FunctionNames ==
    {"pcr_strike", "pcr_total", "money_at_risk", "max_pain", "gex", "vega", "theta"}

\* the function of the source a call runs
FunctionOf(f) ==
    IF f \in {"pcr_strike", "pcr_total"} THEN "calculate_put_call_ratio" ELSE f

\* two callers, each about to call a function different from the other's
InitConcurrent ==
    /\ df \in {Table(rows) : rows \in TablesOver(SharedRows)}
    /\ ret = NoRet
    /\ argsort = {}
    /\ kept = NoKept
    /\ series = <<>>
    /\ files = NoFiles
    /\ page = NoPage
    /\ callers \in {[i \in Callers |-> Call(fs[i])] :
                       fs \in {g \in [Callers -> FunctionNames] :
                                  FunctionOf(g["a"]) # FunctionOf(g["b"])}}

NextConcurrent ==
    \E i \in Callers : Statement(i) /\ UNCHANGED <<kept, series, files, page>>

SpecConcurrent == InitConcurrent /\ [][NextConcurrent]_vars

\* two callers, each about to compute the total put/call ratio of the table
InitConcurrentTotal ==
    /\ df \in {Table(rows) : rows \in TablesOver(SharedRows)}
    /\ ret = NoRet
    /\ argsort = {}
    /\ kept = NoKept
    /\ series = <<>>
    /\ files = NoFiles
    /\ page = NoPage
    /\ callers = [i \in Callers |-> Call("pcr_total")]

NextConcurrentTotal == NextConcurrent

SpecConcurrentTotal == InitConcurrentTotal /\ [][NextConcurrentTotal]_vars

\* the caller's table in general: None, pd.DataFrame(), or a loaded table of
\* complete rows (possibly of no rows)
GeneralRows ==
    {LoadRow(Num(k), ty, Num(1), Num(2), Num(10), Num(12), Num(1), Num(1), Num(0 - 1)) :
        k \in Strikes, ty \in Types}

Init ==
    /\ df \in {NoneTable, BareTable} \cup {Table(rows) : rows \in TablesOver(GeneralRows)}
    /\ NothingCalled

Next ==
    \/ /\ \E group_by_strike \in BOOLEAN : calculate_put_call_ratio(group_by_strike)
       /\ UNCHANGED <<argsort, sequential>>
    \/ calculate_money_at_risk /\ UNCHANGED <<argsort, sequential>>
    \/ calculate_max_pain /\ UNCHANGED <<argsort, sequential>>
    \/ calculate_gex /\ UNCHANGED sequential
    \/ calculate_vega_exposure /\ UNCHANGED <<argsort, sequential>>
    \/ calculate_theta_exposure /\ UNCHANGED <<argsort, sequential>>

Spec == Init /\ [][Next]_vars

\* chains of complete rows run through every function: a call at every
\* strike and a put at the lowest
ChainRows ==
    {r \in GeneralRows : r.Type = "call" \/ r.Strike = Num(1)}

InitChain ==
    /\ df \in {Table(rows) : rows \in TablesOver(ChainRows)}
    /\ NothingCalled

NextChain == Next

SpecChain == InitChain /\ [][NextChain]_vars

\* a table without the column c: the loader cleans only the columns its
\* source has, and a caller may pass a table built elsewhere
WithoutColumn(t, c) ==
    [exists |-> TRUE,
     columns |-> t.columns \ {c},
     rows |-> [i \in 1..Len(t.rows) |->
                 [f \in (DOMAIN t.rows[i]) \ {c} |-> t.rows[i][f]]]]

\* the columns the metric functions look up
MetricColumns ==
    {"Strike", "Type", "Volume", "OpenInterest", "MidPrice", "Gamma", "Vega", "Theta"}

InitColumns ==
    /\ df \in {WithoutColumn(Table(rows), c) :
                  rows \in TablesOver(SharedRows), c \in MetricColumns}
    /\ NothingCalled

NextColumns == Next

SpecColumns == InitColumns /\ [][NextColumns]_vars

\* <<greek, OpenInterest>> of the chains with missing values: a complete
\* row, a row whose greeks are missing, a row whose open interest is missing
MissingCells == {<<Num(1), Num(2)>>, <<NaN, Num(2)>>, <<Num(1), NaN>>}

MissingRows ==
    {LoadRow(Num(k), "call", Num(1), c[2], Num(10), Num(12), c[1], c[1], Neg(c[1])) :
        k \in Strikes, c \in MissingCells}

InitMissing ==
    /\ df \in {Table(rows) : rows \in TablesOver(MissingRows)}
    /\ NothingCalled

NextMissing ==
    \/ calculate_money_at_risk /\ UNCHANGED <<argsort, sequential>>
    \/ calculate_gex /\ UNCHANGED sequential
    \/ calculate_vega_exposure /\ UNCHANGED <<argsort, sequential>>
    \/ calculate_theta_exposure /\ UNCHANGED <<argsort, sequential>>

SpecMissing == InitMissing /\ [][NextMissing]_vars

\* the raw cells of a source file: every text of at most MaxLen characters
\* of the alphabet, the sample texts, and cells already numeric
Alphabet == {"1", "5", ",", ".", "%", "-"}
Texts == UNION {[1..n -> Alphabet] : n \in 0..MaxLen}
SampleTexts ==
    {<<"u", "n", "c", "h">>, <<"N", "/", "A">>, <<"1", ",", "2", "3", "4", ".", "5">>,
     <<"2", "5", "%">>, <<"1", "2", ".", "5", "%">>, <<"2", "5", "%", "%">>}
SampleFloats == {<<25, 1>>, <<5, 10>>, <<0 - 1, 1>>, <<150, 1>>, NaN}
RawValues ==
    {Str(t) : t \in Texts \cup SampleTexts} \cup {Float(v) : v \in SampleFloats}

\* a column of one raw cell, alone or followed by a str or by a float
InitClean ==
    /\ series \in {<<x>> : x \in RawValues}
                  \cup {<<x, y>> : x \in RawValues, y \in {Str(<<"1">>), Float(<<7, 1>>)}}
    /\ df = NoneTable
    /\ ret = NoRet
    /\ argsort = {}
    /\ kept = NoKept
    /\ callers = <<>>
    /\ files = NoFiles
    /\ page = NoPage

NextClean ==
    \/ clean_numeric_column
    \/ clean_percentage_column

SpecClean == InitClean /\ [][NextClean]_vars

\* a table called on again and again: a call row of negative gamma at
\* strike 1 and a put row of positive gamma at strike 2, so that the chain
\* can hold DealerGEX of both signs and of equal size
RecomputeRows ==
    {LoadRow(Num(1), "call", Num(1), Num(2), Num(10), Num(12), Num(0 - 1), Num(1), Num(0 - 1)),
     LoadRow(Num(2), "put", Num(1), Num(2), Num(10), Num(12), Num(1), Num(1), Num(0 - 1))}

InitRecompute ==
    /\ df \in {Table(rows) : rows \in TablesOver(RecomputeRows)}
    /\ NothingCalled

NextRecompute == Next \/ Keep

SpecRecompute == InitRecompute /\ [][NextRecompute]_vars

(***************************************************************************)
(* Properties.  Each is stated from the returned value and the table alone, *)
(* with its own sums, not with the operators of the functions above.       *)
(***************************************************************************)
RECURSIVE SumFn(_, _)
\* the sum of f[x] over the x in S
SumFn(f, S) ==
    IF S = {} THEN 0
    ELSE LET x == CHOOSE y \in S : TRUE
         IN f[x] + SumFn(f, S \ {x})

RowIndex == 1..Len(df.rows)
ObservedStrikes == {df.rows[i].Strike[1] : i \in RowIndex}
RowsAt(k) == {i \in RowIndex : df.rows[i].Strike[1] = k}
RowsOfType(I, type) == {i \in I : df.rows[i].Type = type}

\* value(K) = 100 * (sum over calls of max(0, K - Strike_i) * OI_i
\*                   + sum over puts of max(0, Strike_i - K) * OI_i)
PainValue(K) ==
    LET callPay == [i \in RowIndex |->
                      (IF K > df.rows[i].Strike[1] THEN K - df.rows[i].Strike[1] ELSE 0)
                      * df.rows[i].OpenInterest[1]]
        putPay == [i \in RowIndex |->
                      (IF df.rows[i].Strike[1] > K THEN df.rows[i].Strike[1] - K ELSE 0)
                      * df.rows[i].OpenInterest[1]]
    IN 100 * (SumFn(callPay, RowsOfType(RowIndex, "call"))
              + SumFn(putPay, RowsOfType(RowIndex, "put")))

PainMinimizers ==
    {K \in ObservedStrikes : \A K2 \in ObservedStrikes : PainValue(K) <= PainValue(K2)}

MaxPainReturned == ret.fn = "max_pain" /\ df.exists /\ df.rows # <<>>

\* C1: on a non-empty chain of complete rows calculate_max_pain returns an
\* observed strike whose value(K) is no greater than that of any other
\* observed strike.
C1_MaxPainMinimizes ==
    MaxPainReturned =>
        /\ ret.status = "ok"
        /\ Len(ret.scalar) = 1
        /\ ret.scalar[1] \in ObservedStrikes
        /\ \A K2 \in ObservedStrikes : PainValue(ret.scalar[1]) <= PainValue(K2)

\* C1 witness: three observed strikes, the middle one returned, with a value
\* strictly below that of both others
C1_Witness ==
    /\ MaxPainReturned
    /\ ObservedStrikes = {1, 2, 3}
    /\ ret.scalar = <<2>>
    /\ PainValue(2) < PainValue(1)
    /\ PainValue(2) < PainValue(3)

\* C2: when several observed strikes have the minimal value(K),
\* calculate_max_pain returns the lowest of them; a chain of zero open
\* interest everywhere returns its lowest strike.
C2_TieLowestStrike ==
    MaxPainReturned =>
        /\ Len(ret.scalar) = 1
        /\ ret.scalar[1] \in PainMinimizers
        /\ \A K \in PainMinimizers : ret.scalar[1] <= K
        /\ (\A i \in RowIndex : df.rows[i].OpenInterest[1] = 0)
              => \A K \in ObservedStrikes : ret.scalar[1] <= K

\* C2 witness: two strikes tie at a minimal value that is not zero (calls
\* below, puts above), and the lower one is returned
C2_Witness ==
    /\ MaxPainReturned
    /\ Cardinality(PainMinimizers) >= 2
    /\ \E K \in PainMinimizers : PainValue(K) > 0
    /\ \E K \in PainMinimizers : ret.scalar[1] < K

GexReturned == ret.fn = "gex" /\ df.exists /\ df.rows # <<>>
GexIndex == 1..Len(ret.table)

\* -Gamma_i * OpenInterest_i * 100 of row i of the chain
RowDealerGex == [i \in RowIndex |-> 0 - df.rows[i].Gamma[1] * df.rows[i].OpenInterest[1] * 100]

\* the positions of the returned table at which |DealerGEX| is the least
LeastAbsGex ==
    {i \in GexIndex : \A j \in GexIndex :
        (IF ret.table[i].DealerGEX < 0 THEN 0 - ret.table[i].DealerGEX ELSE ret.table[i].DealerGEX)
        <= (IF ret.table[j].DealerGEX < 0 THEN 0 - ret.table[j].DealerGEX ELSE ret.table[j].DealerGEX)}

MixedSigns ==
    /\ \E i \in GexIndex : ret.table[i].DealerGEX > 0
    /\ \E i \in GexIndex : ret.table[i].DealerGEX < 0

\* C3: when the per-strike table has a positive and a negative DealerGEX, the
\* gamma-flip strike returned is a strike whose |DealerGEX| is the least over
\* all strikes of the table.
C3_FlipLeastOfAllStrikes ==
    (GexReturned /\ MixedSigns) =>
        /\ Len(ret.scalar) = 1
        /\ \E i \in LeastAbsGex : ret.table[i].Strike = ret.scalar[1]

\* C3 witness: DealerGEX is positive at the first strike and negative at the
\* second and third, so the only sign change lies between the first two, and
\* the strike returned is the third
C3_Witness ==
    /\ GexReturned
    /\ Len(ret.table) = 3
    /\ ret.table[1].DealerGEX > 0
    /\ ret.table[2].DealerGEX < 0
    /\ ret.table[3].DealerGEX < 0
    /\ ret.scalar = <<ret.table[3].Strike>>

\* C4: when the per-strike DealerGEX values of a non-empty chain do not mix
\* strictly positive and strictly negative values, the gamma-flip strike
\* returned is the strike of least |DealerGEX| overall, and is not null.
C4_FlipWithoutSignMix ==
    (GexReturned /\ ~MixedSigns) =>
        /\ ret.status = "ok"
        /\ Len(ret.scalar) = 1
        /\ \E i \in LeastAbsGex : ret.table[i].Strike = ret.scalar[1]

\* C4 witness: every DealerGEX is negative, of different magnitudes, and the
\* strike returned is not the first of the table
C4_Witness ==
    /\ GexReturned
    /\ Len(ret.table) >= 2
    /\ \A i \in GexIndex : ret.table[i].DealerGEX < 0
    /\ Cardinality(LeastAbsGex) = 1
    /\ ret.scalar # <<ret.table[1].Strike>>
    /\ Len(ret.scalar) = 1

\* C5: for each distinct strike, DealerGEX is the sum over all rows at that
\* strike, calls and puts alike, of -Gamma_i * OpenInterest_i * 100.
C5_DealerGexPerStrike ==
    GexReturned =>
        /\ ret.status = "ok"
        /\ {ret.table[i].Strike : i \in GexIndex} = ObservedStrikes
        /\ \A i \in GexIndex :
              ret.table[i].DealerGEX = SumFn(RowDealerGex, RowsAt(ret.table[i].Strike))

\* C5 witness: a strike with a call row and a put row, both contributing, and
\* a DealerGEX that is the sum of the two
C5_Witness ==
    /\ GexReturned
    /\ \E i \in GexIndex :
          /\ \E a \in RowsOfType(RowsAt(ret.table[i].Strike), "call") : RowDealerGex[a] # 0
          /\ \E b \in RowsOfType(RowsAt(ret.table[i].Strike), "put") : RowDealerGex[b] # 0
          /\ ret.table[i].DealerGEX # 0

\* C6: the table returned by calculate_gex is in strictly ascending Strike
\* order, each CumulativeDealerGEX is the sum of DealerGEX over that row and
\* the rows of lower Strike, and the last one is the chain's total DealerGEX.
C6_AscendingCumulative ==
    (ret.fn = "gex" /\ ret.status = "ok") =>
        /\ \A i, j \in GexIndex : i < j => ret.table[i].Strike < ret.table[j].Strike
        /\ \A i \in GexIndex :
              ret.table[i].CumulativeDealerGEX =
                 SumFn([j \in GexIndex |-> ret.table[j].DealerGEX],
                       {j \in GexIndex : ret.table[j].Strike <= ret.table[i].Strike})
        /\ ret.table # <<>> =>
              ret.table[Len(ret.table)].CumulativeDealerGEX = SumFn(RowDealerGex, RowIndex)

\* C6 witness: three strikes whose rows arrive in descending strike order,
\* with a running sum that rises and then falls
C6_Witness ==
    /\ GexReturned
    /\ Len(ret.table) = 3
    /\ Len(df.rows) = 3
    /\ df.rows[1].Strike[1] > df.rows[2].Strike[1]
    /\ df.rows[2].Strike[1] > df.rows[3].Strike[1]
    /\ ret.table[1].CumulativeDealerGEX < ret.table[2].CumulativeDealerGEX
    /\ ret.table[3].CumulativeDealerGEX < ret.table[2].CumulativeDealerGEX

RatioReturned == ret.fn \in {"pcr_strike", "pcr_total"} /\ df.exists /\ df.rows # <<>>
RatioIndex == 1..Len(ret.table)

\* the sum of a column over the rows of one type among the rows I
TypeSum(I, type, column) ==
    SumFn([i \in RowIndex |-> df.rows[i][column][1]], RowsOfType(I, type))

\* the rows of the chain in the group of returned row i
GroupOf(i) == IF ret.fn = "pcr_strike" THEN RowsAt(ret.table[i].Strike) ELSE RowIndex

\* the cell is the quotient puts / calls
IsQuotient(cell, puts, calls) ==
    /\ Len(cell) = 2
    /\ cell[2] # 0
    /\ cell[1] * calls = puts * cell[2]

\* C7: one row per distinct Strike when group_by_strike is true and exactly
\* one row labelled 'Total' when it is false; in each row PC_Volume_Ratio is
\* the put Volume sum over the call Volume sum of the group, and PC_OI_Ratio
\* the same on OpenInterest, whenever the call-side sum is positive.
C7_PutCallRatioRows ==
    RatioReturned =>
        /\ ret.status = "ok"
        /\ ret.fn = "pcr_strike" =>
              /\ {ret.table[i].Strike : i \in RatioIndex} = ObservedStrikes
              /\ Len(ret.table) = Cardinality(ObservedStrikes)
        /\ ret.fn = "pcr_total" =>
              /\ Len(ret.table) = 1
              /\ ret.table[1].Level = "Total"
        /\ \A i \in RatioIndex :
              /\ TypeSum(GroupOf(i), "call", "Volume") > 0 =>
                    IsQuotient(ret.table[i].PC_Volume_Ratio,
                               TypeSum(GroupOf(i), "put", "Volume"),
                               TypeSum(GroupOf(i), "call", "Volume"))
              /\ TypeSum(GroupOf(i), "call", "OpenInterest") > 0 =>
                    IsQuotient(ret.table[i].PC_OI_Ratio,
                               TypeSum(GroupOf(i), "put", "OpenInterest"),
                               TypeSum(GroupOf(i), "call", "OpenInterest"))

\* C7 witness: grouped by strike, a strike whose puts traded half the volume
\* of its calls (as 50 against 100), with a different OpenInterest quotient
C7_Witness ==
    /\ RatioReturned
    /\ ret.fn = "pcr_strike"
    /\ \E i \in RatioIndex :
          /\ TypeSum(GroupOf(i), "put", "Volume") = 1
          /\ TypeSum(GroupOf(i), "call", "Volume") = 2
          /\ IsQuotient(ret.table[i].PC_Volume_Ratio, 1, 2)
          /\ TypeSum(GroupOf(i), "call", "OpenInterest") > 0
          /\ ~IsQuotient(ret.table[i].PC_OI_Ratio, 1, 2)

\* C7 witness for the other mode: the single row 'Total' of a chain of two
\* strikes
C7_WitnessTotal ==
    /\ RatioReturned
    /\ ret.fn = "pcr_total"
    /\ Cardinality(ObservedStrikes) = 2
    /\ IsQuotient(ret.table[1].PC_Volume_Ratio, 1, 2)

\* C8: a group whose call-side sum is zero gets a missing value in that ratio
\* cell (not zero, not infinity, no exception); the two ratios of a group are
\* decided independently; every other group's row is still returned.
C8_ZeroCallSideIsMissing ==
    RatioReturned =>
        /\ ret.status = "ok"
        /\ ret.fn = "pcr_strike" => {ret.table[i].Strike : i \in RatioIndex} = ObservedStrikes
        /\ ret.fn = "pcr_total" => Len(ret.table) = 1
        /\ \A i \in RatioIndex :
              /\ (TypeSum(GroupOf(i), "call", "Volume") = 0)
                    <=> (ret.table[i].PC_Volume_Ratio = <<>>)
              /\ (TypeSum(GroupOf(i), "call", "OpenInterest") = 0)
                    <=> (ret.table[i].PC_OI_Ratio = <<>>)

\* C8 witness: one group with no call volume but call open interest (one
\* ratio missing, the other a quotient), beside a group with both quotients
C8_Witness ==
    /\ RatioReturned
    /\ ret.fn = "pcr_strike"
    /\ \E i, j \in RatioIndex :
          /\ ret.table[i].PC_Volume_Ratio = <<>>
          /\ Len(ret.table[i].PC_OI_Ratio) = 2
          /\ TypeSum(GroupOf(i), "put", "Volume") > 0
          /\ Len(ret.table[j].PC_Volume_Ratio) = 2
          /\ Len(ret.table[j].PC_OI_Ratio) = 2

\* C9: given an empty chain table or no table, every function returns its
\* empty result without raising: an empty table, and null for the max-pain
\* strike and the gamma-flip strike.
C9_EmptyInputEmptyResult ==
    (ret.fn # "none" /\ (~df.exists \/ df.rows = <<>>)) =>
        /\ ret.status = "ok"
        /\ ret.table = <<>>
        /\ ret.scalar = <<>>

MoneyReturned == ret.fn = "money_at_risk" /\ df.exists /\ df.rows # <<>>
MoneyIndex == 1..Len(ret.table)

\* OpenInterest_i * m_i * 100 in the model's price unit, m_i being
\* (Bid_i + Ask_i) / 2, or 0 when Bid_i or Ask_i is missing
RowMoney ==
    [i \in RowIndex |->
        IF df.rows[i].Bid = <<>> \/ df.rows[i].Ask = <<>> THEN 0
        ELSE df.rows[i].OpenInterest[1]
             * (((df.rows[i].Bid[1] + df.rows[i].Ask[1]) * PriceScale) \div 2) * 100]

\* C10: for each distinct strike, MoneyAtRisk is the sum over the rows at
\* that strike of OpenInterest_i * m_i * 100, m_i the row's MidPrice or 0 when
\* it is missing (Bid or Ask missing); one row with OI = 10, Bid = 1.0 and
\* Ask = 1.2 gives 1100 (Bid and Ask are in tenths and MidPrice in
\* 1/PriceScale of a tenth, so 1100 reads 1100 * 10 * PriceScale).
C10_MoneyAtRiskPerStrike ==
    MoneyReturned =>
        /\ ret.status = "ok"
        /\ {ret.table[i].Strike : i \in MoneyIndex} = ObservedStrikes
        /\ Len(ret.table) = Cardinality(ObservedStrikes)
        /\ \A i \in MoneyIndex :
              ret.table[i].MoneyAtRisk = SumFn(RowMoney, RowsAt(ret.table[i].Strike))
        /\ \A i \in RowIndex : (df.rows[i].MidPrice = <<>>)
                                  <=> (df.rows[i].Bid = <<>> \/ df.rows[i].Ask = <<>>)
        /\ (/\ Len(df.rows) = 1
            /\ df.rows[1].OpenInterest = <<10>>
            /\ df.rows[1].Bid = <<10>>
            /\ df.rows[1].Ask = <<12>>)
              => ret.table[1].MoneyAtRisk = 1100 * 10 * PriceScale

\* C10 witness: a strike with a row of complete quotes and a row whose Bid is
\* missing; only the first contributes
C10_Witness ==
    /\ MoneyReturned
    /\ \E i \in MoneyIndex : \E a, b \in RowsAt(ret.table[i].Strike) :
          /\ df.rows[a].MidPrice # <<>>
          /\ df.rows[b].Bid = <<>>
          /\ Cardinality(RowsAt(ret.table[i].Strike)) = 2
          /\ ret.table[i].MoneyAtRisk = RowMoney[a]
          /\ ret.table[i].MoneyAtRisk > 0

\* C10 witness of the worked example: the single row OI = 10, Bid = 1.0,
\* Ask = 1.2
C10_WitnessExample ==
    /\ MoneyReturned
    /\ Len(df.rows) = 1
    /\ df.rows[1].OpenInterest = <<10>>
    /\ df.rows[1].Bid = <<10>>
    /\ df.rows[1].Ask = <<12>>
    /\ ret.table[1].MoneyAtRisk = 22000

ExposureReturned == ret.fn \in {"vega", "theta"} /\ df.exists /\ df.rows # <<>>
ExposureIndex == 1..Len(ret.table)

\* -Vega_i * OpenInterest_i * 100 and -Theta_i * OpenInterest_i * 100 of row i
RowDealerVega == [i \in RowIndex |-> 0 - df.rows[i].Vega[1] * df.rows[i].OpenInterest[1] * 100]
RowDealerTheta == [i \in RowIndex |-> 0 - df.rows[i].Theta[1] * df.rows[i].OpenInterest[1] * 100]

\* C11: calculate_vega_exposure and calculate_theta_exposure return, for each
\* distinct strike, the sum over the rows at that strike of
\* -Vega_i * OpenInterest_i * 100 and of -Theta_i * OpenInterest_i * 100; a
\* row of negative Theta and positive OpenInterest contributes a positive
\* DealerThetaExposure.
C11_DealerExposurePerStrike ==
    ExposureReturned =>
        /\ ret.status = "ok"
        /\ {ret.table[i].Strike : i \in ExposureIndex} = ObservedStrikes
        /\ Len(ret.table) = Cardinality(ObservedStrikes)
        /\ ret.fn = "vega" =>
              \A i \in ExposureIndex :
                 ret.table[i].DealerVegaExposure
                    = SumFn(RowDealerVega, RowsAt(ret.table[i].Strike))
        /\ ret.fn = "theta" =>
              /\ \A i \in ExposureIndex :
                    ret.table[i].DealerThetaExposure
                       = SumFn(RowDealerTheta, RowsAt(ret.table[i].Strike))
              /\ \A i \in ExposureIndex :
                    (\A a \in RowsAt(ret.table[i].Strike) :
                        df.rows[a].Theta[1] < 0 /\ df.rows[a].OpenInterest[1] > 0)
                       => ret.table[i].DealerThetaExposure > 0

\* C11 witness: a strike with two rows of negative Theta and positive open
\* interest, whose DealerThetaExposure is the positive sum of the two
C11_Witness ==
    /\ ExposureReturned
    /\ ret.fn = "theta"
    /\ \E i \in ExposureIndex : \E a, b \in RowsAt(ret.table[i].Strike) :
          /\ a # b
          /\ df.rows[a].Theta[1] < 0 /\ df.rows[a].OpenInterest[1] > 0
          /\ df.rows[b].Theta[1] < 0 /\ df.rows[b].OpenInterest[1] > 0
          /\ ret.table[i].DealerThetaExposure = RowDealerTheta[a] + RowDealerTheta[b]
          /\ ret.table[i].DealerThetaExposure > RowDealerTheta[a]

\* C11 witness for vega: a strike of two rows of different vega
C11_WitnessVega ==
    /\ ExposureReturned
    /\ ret.fn = "vega"
    /\ \E i \in ExposureIndex : \E a, b \in RowsAt(ret.table[i].Strike) :
          /\ df.rows[a].Vega # df.rows[b].Vega
          /\ RowDealerVega[a] # 0 /\ RowDealerVega[b] # 0
          /\ ret.table[i].DealerVegaExposure = RowDealerVega[a] + RowDealerVega[b]

\* C12: no function mutates its input: after any call of
\* calculate_put_call_ratio (either mode), calculate_money_at_risk,
\* calculate_max_pain, calculate_gex, calculate_vega_exposure or
\* calculate_theta_exposure the table passed in has exactly the columns and
\* the cell values it had before the call.
C12_InputNotMutated == [][df' = df]_vars

\* the table function f returns when it is the only call on the table
TableAlone(f) ==
    IF df.rows = <<>> THEN <<>>
    ELSE CASE f = "pcr_strike" -> RatiosByStrike(df.rows)
           [] f = "pcr_total" -> RatiosTotal(df.rows)
           [] f = "money_at_risk" -> MoneyAtRiskTable(df.rows)
           [] f = "gex" -> GexTable(df.rows)
           [] f = "vega" -> VegaExposureTable(df.rows)
           [] f = "theta" -> ThetaExposureTable(df.rows)
           [] OTHER -> <<>>

\* C13: callers of different functions on the same table may be interleaved
\* in any order: under every interleaving of their statements each call
\* completes without error and returns what it returns when run alone on
\* that table.
C13_InterleavedCallsComplete ==
    \A i \in DOMAIN callers :
        callers[i].pc = 0 =>
            /\ callers[i].out.status = "ok"
            /\ callers[i].out.table = TableAlone(callers[i].fn)

\* C14: a function called again on the same table returns what it returned
\* the first time, whatever other functions were called on the table in
\* between.
C14_Idempotent ==
    (kept # NoKept /\ ret.fn = kept.value.fn) => ret = kept.value

\* C14 witness: money at risk returned the same non-empty table again after
\* the put/call ratio, the GEX and the vega exposure had been computed on the
\* table in between
C14_Witness ==
    /\ kept.value.fn = "money_at_risk"
    /\ ret = kept.value
    /\ Len(ret.table) = 2
    /\ "DealerGEX" \notin kept.columns
    /\ "DealerVegaExposure" \notin kept.columns
    /\ {"DealerGEX", "DealerVegaExposure"} \subseteq df.columns

\* C14 witness for the flip point: DealerGEX of both signs and equal size, the
\* GEX computed, the theta exposure computed, and the GEX computed again
C14_WitnessFlip ==
    /\ kept.value.fn = "gex"
    /\ ret = kept.value
    /\ Cardinality(GammaFlipPoints(ret.table)) = 2
    /\ "DealerThetaExposure" \notin kept.columns
    /\ "DealerThetaExposure" \in df.columns

PerStrikeFunctions == {"pcr_strike", "money_at_risk", "gex", "vega", "theta"}
NonEmptyChain == df.exists /\ df.rows # <<>>

\* C15: on a non-empty chain of complete rows each per-strike table (put/call
\* ratio by strike, money at risk, GEX, vega exposure, theta exposure) has
\* exactly one row per distinct strike of the chain and no other strike, and
\* no function raises.
C15_OneRowPerStrike ==
    (NonEmptyChain /\ ret.fn # "none") =>
        /\ ret.status = "ok"
        /\ ret.fn \in PerStrikeFunctions =>
              /\ {ret.table[i].Strike : i \in 1..Len(ret.table)} = ObservedStrikes
              /\ Len(ret.table) = Cardinality(ObservedStrikes)

\* C15 witness: a call and a put at one strike and a row at another; the
\* put/call ratio by strike has two rows
C15_Witness ==
    /\ NonEmptyChain
    /\ ret.fn = "pcr_strike"
    /\ Len(df.rows) = 3
    /\ \E k \in ObservedStrikes :
          RowsOfType(RowsAt(k), "call") # {} /\ RowsOfType(RowsAt(k), "put") # {}
    /\ Cardinality(ObservedStrikes) = 2
    /\ Len(ret.table) = 2

\* the columns function f requires
RequiredColumns(f) ==
    CASE f = "pcr_strike" -> {"Strike", "Type", "Volume", "OpenInterest"}
      [] f = "pcr_total" -> {"Type", "Volume", "OpenInterest"}
      [] f = "money_at_risk" -> {"Strike", "OpenInterest", "MidPrice"}
      [] f = "max_pain" -> {"Strike", "Type", "OpenInterest"}
      [] f = "gex" -> {"Strike", "Gamma", "OpenInterest"}
      [] f = "vega" -> {"Strike", "Vega", "OpenInterest"}
      [] f = "theta" -> {"Strike", "Theta", "OpenInterest"}
      [] OTHER -> {}

\* C16: a function given a table that lacks a column it requires reports an
\* empty result to its caller and does not raise; this holds for every
\* function.
C16_MissingColumnEmptyResult ==
    (df.exists /\ ~(RequiredColumns(ret.fn) \subseteq df.columns)) =>
        /\ ret.status = "ok"
        /\ ret.table = <<>>
        /\ ret.scalar = <<>>

\* the greek function f multiplies by the open interest, if any
GreekOf(f) ==
    CASE f = "gex" -> {"Gamma"}
      [] f = "vega" -> {"Vega"}
      [] f = "theta" -> {"Theta"}
      [] OTHER -> {}

\* the value function f reports in row i of its table
ReportedValue(i) ==
    CASE ret.fn = "money_at_risk" -> ret.table[i].MoneyAtRisk
      [] ret.fn = "gex" -> ret.table[i].DealerGEX
      [] ret.fn = "vega" -> ret.table[i].DealerVegaExposure
      [] ret.fn = "theta" -> ret.table[i].DealerThetaExposure

\* some row at strike k lacks the open interest or the greek of ret.fn
AffectedStrike(k) ==
    \E a \in RowsAt(k) :
        \/ df.rows[a].OpenInterest = <<>>
        \/ \E g \in GreekOf(ret.fn) : df.rows[a][g] = <<>>

\* C17: given rows with a missing greek or a missing open interest, an
\* exposure or money-at-risk function does not raise and the value it reports
\* for each affected strike is NaN, not a number; in particular never zero.
C17_MissingValueIsNaN ==
    (ret.fn \in {"money_at_risk", "gex", "vega", "theta"} /\ NonEmptyChain) =>
        /\ ret.status = "ok"
        /\ \A i \in 1..Len(ret.table) :
              AffectedStrike(ret.table[i].Strike) => ReportedValue(i) \notin Int

CleanReturned == ret.fn \in {"clean_numeric", "clean_percentage"}
SeriesIndex == 1..Len(series)
AllStr == \A i \in SeriesIndex : series[i].kind = "str"
AllFloat == \A i \in SeriesIndex : series[i].kind = "float"

TextUnch == <<"u", "n", "c", "h">>
TextNA == <<"N", "/", "A">>
TextThousands == <<"1", ",", "2", "3", "4", ".", "5">>

\* the text t with its commas taken out
Commaless(t) ==
    LET Kept(c) == c # ","
    IN SelectSeq(t, Kept)

\* the text t up to its last character that is not a trailing '%'
TrailingStripped(t) ==
    LET n == CHOOSE m \in 0..Len(t) :
                /\ \A i \in (m + 1)..Len(t) : t[i] = "%"
                /\ m = 0 \/ t[m] # "%"
    IN SubSeq(t, 1, n)

\* the text t writes no number: it has no digit, or a character that is
\* neither digit, point nor leading sign, or two points
NotANumber(t) ==
    \/ \A i \in 1..Len(t) : ~IsDigit(t[i])
    \/ \E i \in 1..Len(t) : ~IsDigit(t[i]) /\ t[i] # "." /\ ~(i = 1 /\ t[i] = "-")
    \/ \E i, j \in 1..Len(t) : i # j /\ t[i] = "." /\ t[j] = "."

\* the cell c is the number n / d
IsNumber(c, n, d) == c # <<>> /\ c[1] * d = n * c[2]

\* C18 as stated: on a column of strings clean_numeric_column and
\* clean_percentage_column both map 'unch', 'N/A' and '' to missing, both map
\* '1,234.5' to 1234.5 (the commas removed before parsing), and both map any
\* other unparsable string to missing, without raising.
C18_BothRemoveCommas ==
    (CleanReturned /\ AllStr) =>
        /\ ret.status = "ok"
        /\ \A i \in SeriesIndex :
              LET t == series[i].text
                  core == IF ret.fn = "clean_percentage"
                          THEN TrailingStripped(Commaless(t)) ELSE Commaless(t)
              IN /\ t \in {TextUnch, TextNA, <<>>} => ret.table[i] = <<>>
                 /\ t = TextThousands => IsNumber(ret.table[i], 12345, 10)
                 /\ NotANumber(core) => ret.table[i] = <<>>

\* C18 amended: on a column of strings both functions map 'unch', 'N/A' and
\* '' to missing and any other unparsable string to missing, without raising;
\* clean_numeric_column removes the commas before parsing and maps '1,234.5'
\* to 1234.5; clean_percentage_column removes no comma and maps '1,234.5' to
\* missing.
C18_OnlyNumericRemovesCommas ==
    (CleanReturned /\ AllStr) =>
        /\ ret.status = "ok"
        /\ \A i \in SeriesIndex :
              LET t == series[i].text
                  core == IF ret.fn = "clean_percentage"
                          THEN TrailingStripped(t) ELSE Commaless(t)
              IN /\ t \in {TextUnch, TextNA, <<>>} => ret.table[i] = <<>>
                 /\ t = TextThousands =>
                       IF ret.fn = "clean_numeric"
                       THEN IsNumber(ret.table[i], 12345, 10)
                       ELSE ret.table[i] = <<>>
                 /\ NotANumber(core) => ret.table[i] = <<>>

\* C18 witness: clean_numeric_column has returned 1234.5 for '1,234.5'
C18_Witness ==
    /\ ret.fn = "clean_numeric"
    /\ series = <<Str(TextThousands)>>
    /\ ret.table = <<<<12345, 10>>>>

\* C18 witness for the percentage cleaner: '1,234.5' has come out missing,
\* next to '1' which has come out 0.01
C18_WitnessPercentage ==
    /\ ret.fn = "clean_percentage"
    /\ series = <<Str(TextThousands), Str(<<"1">>)>>
    /\ ret.table[1] = <<>>
    /\ IsNumber(ret.table[2], 1, 100)

\* C18 witness for the tokens: 'unch' has come out missing
C18_WitnessToken ==
    /\ CleanReturned
    /\ series = <<Str(TextUnch), Str(<<"1">>)>>
    /\ ret.table[1] = <<>>
    /\ ret.table[2] # <<>>

\* the text d is a decimal number: an optional sign, digits, and optionally
\* a point followed by digits
DecimalText(d) ==
    LET b == IF d # <<>> /\ d[1] = "-" THEN Tail(d) ELSE d
    IN /\ b # <<>>
       /\ IsDigit(b[1])
       /\ IsDigit(b[Len(b)])
       /\ \A i \in 1..Len(b) : IsDigit(b[i]) \/ b[i] = "."
       /\ \A i, j \in 1..Len(b) : (b[i] = "." /\ b[j] = ".") => i = j

\* the text t is a decimal number, optionally followed by one '%'
PercentText(t) ==
    \/ DecimalText(t)
    \/ t # <<>> /\ t[Len(t)] = "%" /\ DecimalText(SubSeq(t, 1, Len(t) - 1))

\* the number <<n, d>> the decimal number of a percent text writes
NumberOf(t) ==
    LET d == IF t[Len(t)] = "%" THEN SubSeq(t, 1, Len(t) - 1) ELSE t
        point == {i \in 1..Len(d) : d[i] = "."}
        digits == SelectSeq(d, IsDigit)
        size == DigitsValue(digits)
    IN <<IF d[1] = "-" THEN 0 - size ELSE size,
         Pow10(Cardinality({i \in 1..Len(d) : \E q \in point : i > q}))>>

\* the input number of cell i of a column of strings or of a column of
\* floats, <<>> if the cell holds none
InputNumber(i) ==
    IF AllStr /\ PercentText(series[i].text) THEN NumberOf(series[i].text)
    ELSE IF AllFloat THEN series[i].value
    ELSE <<>>

\* the cell c, a number, lies in [0, 1]
InUnitRange(c) == 0 <= c[1] /\ c[1] <= c[2]

\* C19 as stated: for every input that is a decimal number optionally
\* followed by one '%', clean_percentage_column returns that number divided
\* by 100, in a column of strings and in a column of numbers alike, and the
\* result is a fraction in [0, 1].
C19_FractionInUnitRange ==
    ret.fn = "clean_percentage" =>
        \A i \in SeriesIndex :
            InputNumber(i) # <<>> =>
                /\ IsNumber(ret.table[i], InputNumber(i)[1], InputNumber(i)[2] * 100)
                /\ InUnitRange(ret.table[i])

\* C19 amended: for every input that is a decimal number optionally followed
\* by one '%', clean_percentage_column returns that number divided by 100,
\* in a column of strings and in a column of numbers alike; the result is in
\* [0, 1] only when the number is between 0 and 100.
C19_DividedBy100 ==
    ret.fn = "clean_percentage" =>
        \A i \in SeriesIndex :
            InputNumber(i) # <<>> =>
                /\ IsNumber(ret.table[i], InputNumber(i)[1], InputNumber(i)[2] * 100)
                /\ InUnitRange(ret.table[i])
                      <=> (/\ 0 <= InputNumber(i)[1]
                           /\ InputNumber(i)[1] <= 100 * InputNumber(i)[2])

\* C19 witness: '25%' has come out 0.25
C19_Witness ==
    /\ ret.fn = "clean_percentage"
    /\ series = <<Str(<<"2", "5", "%">>)>>
    /\ IsNumber(ret.table[1], 25, 100)

\* C19 witness for a column of numbers: 150 has come out 1.5, outside [0, 1]
C19_WitnessNumeric ==
    /\ ret.fn = "clean_percentage"
    /\ series = <<Float(<<150, 1>>)>>
    /\ IsNumber(ret.table[1], 15, 10)
    /\ ~InUnitRange(ret.table[1])

\* C20: in clean_numeric_column a value that is no string comes out
\* unchanged, in a column of numbers and in a column that also holds strings.
C20_NonStringsUnchanged ==
    ret.fn = "clean_numeric" =>
        \A i \in SeriesIndex :
            series[i].kind = "float" => ret.table[i] = series[i].value

\* Gamma_i * OpenInterest_i * 100 of row i of the chain
RowGammaNotional == [i \in RowIndex |-> df.rows[i].Gamma[1] * df.rows[i].OpenInterest[1] * 100]

\* C22: if every row has Gamma >= 0 and OpenInterest >= 0, every DealerGEX of
\* the table calculate_gex returns is <= 0, of magnitude the sum of
\* Gamma * OpenInterest * 100 at that strike, and CumulativeDealerGEX does not
\* increase along ascending Strike.
C22_NonNegativeGammaChain ==
    (GexReturned /\ \A a \in RowIndex :
                       df.rows[a].Gamma[1] >= 0 /\ df.rows[a].OpenInterest[1] >= 0) =>
        /\ \A i \in GexIndex :
              /\ ret.table[i].DealerGEX <= 0
              /\ 0 - ret.table[i].DealerGEX
                    = SumFn(RowGammaNotional, RowsAt(ret.table[i].Strike))
        /\ \A i, j \in GexIndex :
              ret.table[i].Strike < ret.table[j].Strike
                 => ret.table[i].CumulativeDealerGEX >= ret.table[j].CumulativeDealerGEX

\* C22 witness: gamma positive everywhere, open interest at three strikes
\* given in descending order, and a cumulative GEX that falls at every strike
C22_Witness ==
    /\ GexReturned
    /\ \A a \in RowIndex : df.rows[a].Gamma[1] > 0 /\ df.rows[a].OpenInterest[1] > 0
    /\ Len(ret.table) = 3
    /\ df.rows[1].Strike[1] > df.rows[2].Strike[1]
    /\ ret.table[1].CumulativeDealerGEX > ret.table[2].CumulativeDealerGEX
    /\ ret.table[2].CumulativeDealerGEX > ret.table[3].CumulativeDealerGEX

\* C25: the two gamma-flip branches agree: when the least |DealerGEX| of a
\* non-empty per-strike table is attained at a single strike, that strike is
\* returned whether or not DealerGEX has values of both signs.
C25_FlipBranchesAgree ==
    (GexReturned /\ Cardinality(LeastAbsGex) = 1) =>
        \A i \in LeastAbsGex : ret.scalar = <<ret.table[i].Strike>>

\* C25 witness: both signs present, the least |DealerGEX| at a single strike
\* that is not the first, and that strike returned
C25_Witness ==
    /\ GexReturned
    /\ MixedSigns
    /\ Cardinality(LeastAbsGex) = 1
    /\ 1 \notin LeastAbsGex
    /\ \A i \in LeastAbsGex : ret.scalar = <<ret.table[i].Strike>>

\* C25 witness for the other branch: one sign only, the least |DealerGEX| at
\* a single strike that is not the first, and that strike returned
C25_WitnessOneSign ==
    /\ GexReturned
    /\ ~MixedSigns
    /\ Cardinality(LeastAbsGex) = 1
    /\ 1 \notin LeastAbsGex
    /\ \A i \in LeastAbsGex : ret.scalar = <<ret.table[i].Strike>>

\* C26: two calls of calculate_put_call_ratio with group_by_strike=False
\* interleaved on one table both complete without error, both return the
\* single 'Total' row of the table, and leave the table without the column
\* 'Total', under every interleaving of their add-column, group and
\* drop-column steps.
C26_InterleavedTotalRatios ==
    /\ \A i \in DOMAIN callers :
          (callers[i].fn = "pcr_total" /\ callers[i].pc = 0) =>
              /\ callers[i].out.status = "ok"
              /\ callers[i].out.table = TableAlone("pcr_total")
    /\ (callers # <<>> /\ \A i \in DOMAIN callers :
                             callers[i].fn = "pcr_total" /\ callers[i].pc = 0)
          => "Total" \notin df.columns

(***************************************************************************)
(* The application, src/app.py: one run of the script over the two source  *)
(* files.  A file is readable or not, has a header, and holds the raw      *)
(* cells of the columns the page reads; a raw cell is a str or a float,    *)
(* as for the normalizers.  A date is written by the digit of its day,     *)
(* followed by T and the digit of a time of day when it has one; a parsed  *)
(* timestamp is <<day, time>> and NaT is <<>>.  read_csv reads a blank     *)
(* field as the float NaN, so no str is empty, and a text column is kept   *)
(* as the text of each str and NaN elsewhere.                              *)
(***************************************************************************)
NaT == <<>>

File(header, rows) == [readable |-> TRUE, columns |-> header, rows |-> rows]

\* df[c] of the file as read
RawColumn(file, c) == [i \in 1..Len(file.rows) |-> file.rows[i][c]]

\* the dtype of a column read from the file is object: it holds a str, or
\* the file has a header and no row
ReadAsObject(file, c) == Len(file.rows) = 0 \/ IsObject(RawColumn(file, c))

\* df.rename(columns={...}) of load_and_preprocess_griegas
RenameGriegas(c) ==
    CASE c = "Price~" -> "UnderlyingPrice"
      [] c = "Exp Date" -> "ExpirationDate"
      [] c = "Open Int" -> "OpenInterest"
      [] c = "ITM Prob" -> "ITMProbability"
      [] OTHER -> c

\* df.rename(columns={...}) of load_and_preprocess_inusual
RenameInusual(c) ==
    CASE c = "Price~" -> "UnderlyingPrice"
      [] c = "Open Int" -> "OpenInterest"
      [] c = "Expires" -> "ExpirationDateTime"
      [] c = "*" -> "OpenClose"
      [] OTHER -> c

\* pd.to_datetime(..., errors='coerce'), one value
IsDateText(t) ==
    \/ Len(t) = 1 /\ IsDigit(t[1])
    \/ Len(t) = 3 /\ IsDigit(t[1]) /\ t[2] = "T" /\ IsDigit(t[3])
ToDatetime(e) ==
    IF e.kind = "str" /\ IsDateText(e.text)
    THEN <<DigitValue(e.text[1]),
           IF Len(e.text) = 3 THEN DigitValue(e.text[3]) ELSE 0>>
    ELSE NaT

\* strftime('%Y-%m-%d'): the day, without the time of day
StrfTime(d) == Str(<<DigitChars[d[1] + 1]>>)

\* str.lower(), one character and one value
LowerChar(c) == CASE c = "C" -> "c" [] c = "P" -> "p" [] OTHER -> c
StrLower(e) ==
    IF e.kind = "str"
    THEN Str([i \in 1..Len(e.text) |-> LowerChar(e.text[i])])
    ELSE Float(NaN)

\* a text cell of a loaded table
TextOf(e) == IF e.kind = "str" THEN e.text ELSE NaN

\* the cell of row i that clean_numeric_column leaves in column c, NaN
\* standing in the model's row for a column the file does not have
CleanedCell(file, c, i) ==
    IF c \in file.columns THEN CleanNumeric(RawColumn(file, c))[i] ELSE NaN

\* what a loader call comes to: a table or None returned, or an exception
LoaderReturned(t) == [status |-> "ok", table |-> t]
LoaderRaised == [status |-> "raised", table |-> NoneTable]

load_and_preprocess_griegas(file) ==
    LET columns == {RenameGriegas(c) : c \in file.columns} \cup {"MidPrice"}
                     \cup (IF "Time" \in file.columns THEN {"LastTradeDate"} ELSE {})
        LoadedRow(i) ==
            [ExpirationDate |-> IF "Exp Date" \in file.columns
                                THEN ToDatetime(file.rows[i]["Exp Date"]) ELSE NaT,
             Type |-> IF "Type" \in file.columns
                      THEN TextOf(StrLower(file.rows[i]["Type"])) ELSE NaN,
             Strike |-> CleanedCell(file, "Strike", i),
             OpenInterest |-> CleanedCell(file, "Open Int", i),
             Gamma |-> CleanedCell(file, "Gamma", i),
             Vega |-> CleanedCell(file, "Vega", i),
             Theta |-> CleanedCell(file, "Theta", i)]
    IN IF ~file.readable THEN LoaderReturned(NoneTable)
       ELSE IF "Type" \in file.columns /\ ~ReadAsObject(file, "Type")
       THEN LoaderRaised
       ELSE LoaderReturned([exists |-> TRUE, columns |-> columns,
                            rows |-> [i \in 1..Len(file.rows) |-> LoadedRow(i)]])

load_and_preprocess_inusual(file) ==
    LET columns == {RenameInusual(c) : c \in file.columns}
                     \cup (IF "Expires" \in file.columns THEN {"ExpirationDate"} ELSE {})
                     \cup (IF "Time" \in file.columns THEN {"TradeTime"} ELSE {})
        LoadedRow(i) ==
            [Premium |-> CleanedCell(file, "Premium", i),
             Side |-> IF "Side" \in file.columns
                      THEN TextOf(file.rows[i]["Side"]) ELSE NaN,
             OpenClose |-> IF "*" \in file.columns
                           THEN TextOf(file.rows[i]["*"]) ELSE NaN,
             Type |-> IF "Type" \in file.columns
                      THEN TextOf(StrLower(file.rows[i]["Type"])) ELSE NaN]
    IN IF ~file.readable THEN LoaderReturned(NoneTable)
       ELSE IF "Type" \in file.columns /\ ~ReadAsObject(file, "Type")
       THEN LoaderRaised
       ELSE LoaderReturned([exists |-> TRUE, columns |-> columns,
                            rows |-> [i \in 1..Len(file.rows) |-> LoadedRow(i)]])

\* required_cols_griegas and required_cols_inusual of load_data
required_cols_griegas ==
    {"Strike", "Type", "OpenInterest", "Gamma", "Vega", "Theta", "MidPrice", "Volume"}
required_cols_inusual ==
    {"Strike", "Type", "Premium", "Size", "Trade", "Volume", "OpenInterest", "IV", "Delta"}

\* mutant of LoadData: the columns of the unusual-trade table go unchecked
LoadDataChainOnly(g, u) ==
    IF g.exists /\ ~(required_cols_griegas \subseteq g.columns)
    THEN <<NoneTable, NoneTable>>
    ELSE <<g, u>>

\* what load_data returns for the two tables the loaders returned
LoadData(g, u) ==
    IF g.exists /\ ~(required_cols_griegas \subseteq g.columns)
    THEN <<NoneTable, NoneTable>>
    ELSE IF u.exists /\ ~(required_cols_inusual \subseteq u.columns)
    THEN <<NoneTable, NoneTable>>
    ELSE <<g, u>>

\* df_griegas, df_inusual = load_data(): an exception of a loader is caught
\* nowhere and ends the run
load_data ==
    /\ page.pc = "start"
    /\ LET g == load_and_preprocess_griegas(files.griegas)
           u == load_and_preprocess_inusual(files.inusual)
       IN IF g.status = "raised"
          THEN page' = [page EXCEPT !.pc = "raised",
                                    !.fault = "load_and_preprocess_griegas"]
          ELSE IF u.status = "raised"
          THEN page' = [page EXCEPT !.pc = "raised",
                                    !.fault = "load_and_preprocess_inusual"]
          ELSE page' = [page EXCEPT !.pc = "loaded",
                                    !.df_griegas = LoadData(g.table, u.table)[1],
                                    !.df_inusual = LoadData(g.table, u.table)[2]]
    /\ UNCHANGED <<df, ret, argsort, kept, callers, series, files>>

\* df['ExpirationDate'].dropna().unique(), as a set
ExpDates(t) ==
    {t.rows[i].ExpirationDate : i \in 1..Len(t.rows)} \ {NaT}

\* df[df['ExpirationDate'] == selected_exp_date]
RowsOfDate(t, d) ==
    LET OfDate(r) == r.ExpirationDate = d
    IN [t EXCEPT !.rows = SelectSeq(t.rows, OfDate)]

\* the sidebar filter: with several dates the one chosen in the selectbox,
\* written without its time of day and parsed again; with one date the
\* whole table
select_expiration ==
    /\ page.pc = "loaded"
    /\ LET t == page.df_griegas
       IN IF t.exists /\ ~IsEmpty(t) /\ "ExpirationDate" \in t.columns
          THEN IF ExpDates(t) = {}
               THEN page' = [page EXCEPT !.pc = "filtered",
                                         !.df_griegas_display = BareTable]
               ELSE IF Cardinality(ExpDates(t)) > 1
               THEN \E d \in ExpDates(t) :
                       LET selected_exp_date == ToDatetime(StrfTime(d))
                       IN page' = [page EXCEPT
                                     !.pc = "filtered",
                                     !.selected_exp_date = selected_exp_date,
                                     !.df_griegas_display =
                                         RowsOfDate(t, selected_exp_date)]
               ELSE page' = [page EXCEPT !.pc = "filtered",
                                         !.df_griegas_display = t]
          ELSE page' = [page EXCEPT !.pc = "filtered",
                                    !.df_griegas_display = BareTable]
    /\ UNCHANGED <<df, ret, argsort, kept, callers, series, files>>

\* rows.dropna(subset=[...])
DropNa(rows, subset) ==
    LET Complete(r) == \A c \in subset : ~IsNa(r[c])
    IN SelectSeq(rows, Complete)

\* a call of a metric function, with the rows of the table passed to it
Invoked(f, rows) == [fn |-> f, rows |-> rows]

\* the calls of the page body in the order of the script
MetricCalls(t) ==
    <<Invoked("calculate_put_call_ratio", t.rows),
      Invoked("calculate_max_pain", DropNa(t.rows, {"Strike", "Type", "OpenInterest"})),
      Invoked("calculate_gex", DropNa(t.rows, {"Strike", "Gamma", "OpenInterest"})),
      Invoked("calculate_put_call_ratio", t.rows),
      Invoked("calculate_money_at_risk", t.rows),
      Invoked("calculate_vega_exposure", DropNa(t.rows, {"Strike", "Vega", "OpenInterest"})),
      Invoked("calculate_theta_exposure", DropNa(t.rows, {"Strike", "Theta", "OpenInterest"}))>>

\* what the page body renders from the chain
ChainSections == {"Metricas Clave", "Cadena de Opciones", "Riesgo y Sentimiento"}

\* if df_griegas_display.empty: the warning, and nothing else of the body;
\* else the indicators, the chain tabs and the risk tabs
chain_body ==
    /\ page.pc = "filtered"
    /\ IF IsEmpty(page.df_griegas_display)
       THEN page' = [page EXCEPT !.pc = "done", !.nodata = TRUE]
       ELSE page' = [page EXCEPT !.pc = "flow",
                                 !.invoked = MetricCalls(page.df_griegas_display),
                                 !.rendered = ChainSections]
    /\ UNCHANGED <<df, ret, argsort, kept, callers, series, files>>

\* a number cell at least m; NaN is at least nothing
AtLeast(c, m) == ~IsNa(c) /\ c[1] >= m * c[2]

\* mutant of PremiumCondition: the missing premium is not filled
PremiumConditionUnfilled(r, m) == AtLeast(r.Premium, m)

\* df_inusual['Premium'].fillna(0) >= min_premium, one row
PremiumCondition(r, m) ==
    AtLeast(IF IsNa(r.Premium) THEN <<0, 1>> ELSE r.Premium, m)

\* sorted(df_inusual[c].dropna().unique().tolist()), as a set
Available(t, c) ==
    IF c \in t.columns THEN {t.rows[i][c] : i \in 1..Len(t.rows)} \ {NaN} ELSE {}

\* df_inusual[conditions]
InusualFiltered(t, min_premium, selected_sides, selected_oc) ==
    LET Condition(r) ==
            /\ "Premium" \in t.columns => PremiumCondition(r, min_premium)
            /\ (selected_sides # {} /\ "Side" \in t.columns)
                  => r.Side \in selected_sides
            /\ (selected_oc # {} /\ "OpenClose" \in t.columns)
                  => r.OpenClose \in selected_oc
    IN SelectSeq(t.rows, Condition)

\* the minimum premiums entered in the number input
MinPremiums == {0, 5, 16}

\* the section of the unusual trades, in the else branch of the page body
option_flow ==
    /\ page.pc = "flow"
    /\ LET t == page.df_inusual
       IN IF ~t.exists
          THEN page' = [page EXCEPT !.pc = "done", !.flow = "error"]
          ELSE IF IsEmpty(t)
          THEN page' = [page EXCEPT !.pc = "done", !.flow = "info"]
          ELSE \E min_premium \in MinPremiums,
                  selected_sides \in SUBSET Available(t, "Side"),
                  selected_oc \in SUBSET Available(t, "OpenClose") :
                  page' = [page EXCEPT
                             !.pc = "done", !.flow = "table",
                             !.min_premium = min_premium,
                             !.selected_sides = selected_sides,
                             !.selected_oc = selected_oc,
                             !.df_inusual_filtered =
                                 InusualFiltered(t, min_premium, selected_sides,
                                                 selected_oc)]
    /\ UNCHANGED <<df, ret, argsort, kept, callers, series, files>>

(***************************************************************************)
(* Specifications of the application: one run of the script over a pair of *)
(* source files.                                                           *)
(***************************************************************************)
\* the page before the script has run
StartPage == [NoPage EXCEPT !.pc = "start"]

NextPage ==
    \/ load_data
    \/ select_expiration
    \/ chain_body
    \/ option_flow

\* the headers of the two exports
GriegasHeader ==
    {"Symbol", "Price~", "Type", "Strike", "Exp Date", "Bid", "Ask", "Volume",
     "Open Int", "IV", "Delta", "Gamma", "Theta", "Vega", "Time"}
InusualHeader ==
    {"Symbol", "Price~", "Type", "Strike", "Expires", "DTE", "Trade", "Size",
     "Side", "*", "Premium", "Volume", "Open Int", "IV", "Delta", "Time"}

One == Str(<<"1">>)
CallText == Str(<<"C", "a", "l", "l">>)
PutText == Str(<<"P", "u", "t">>)
Unch == Str(<<"u", "n", "c", "h">>)
Blank == Float(NaN)

\* a row of the chain file: its expiration, type and gamma cells; the other
\* cells are held at 1
ChainFileRow(date, type, gamma) ==
    [c \in {"Exp Date", "Type", "Strike", "Open Int", "Gamma", "Vega", "Theta"} |->
        CASE c = "Exp Date" -> date
          [] c = "Type" -> type
          [] c = "Gamma" -> gamma
          [] OTHER -> One]

\* rows of two expirations, one of them also with a time of day, a row
\* whose expiration does not parse, a row with no gamma and a row with a
\* blank type
ChainFileRows ==
    {ChainFileRow(Str(<<"1">>), CallText, One),
     ChainFileRow(Str(<<"2">>), PutText, One),
     ChainFileRow(Str(<<"2", "T", "1">>), CallText, One),
     ChainFileRow(Unch, PutText, One),
     ChainFileRow(Str(<<"1">>), CallText, Str(<<"N", "/", "A">>)),
     ChainFileRow(Str(<<"2">>), Blank, One)}

\* a row of the unusual-trade file: its premium, side, open/close and type
InusualFileRow(premium, side, oc, type) ==
    [c \in {"Premium", "Side", "*", "Type"} |->
        CASE c = "Premium" -> premium
          [] c = "Side" -> side
          [] c = "*" -> oc
          [] OTHER -> type]

\* the chain file unreadable, or with its full header or a header lacking
\* one column; the unusual-trade file unreadable, complete, without its
\* premium column, or with a blank type column
PageChainFiles ==
    {NoFile}
    \cup {File(GriegasHeader \ missing, rows) :
            missing \in {{}, {"Gamma"}, {"Exp Date"}, {"Bid"}},
            rows \in TablesOver(ChainFileRows)}
PageInusualFiles ==
    {NoFile,
     File(InusualHeader, <<InusualFileRow(Str(<<"5">>), Str(<<"a">>), Str(<<"o">>), PutText)>>),
     File(InusualHeader \ {"Premium"},
          <<InusualFileRow(Str(<<"5">>), Str(<<"a">>), Str(<<"o">>), PutText)>>),
     File(InusualHeader, <<InusualFileRow(Str(<<"5">>), Str(<<"a">>), Str(<<"o">>), Blank)>>)}

InitPage ==
    /\ files \in {[griegas |-> g, inusual |-> u] :
                     g \in PageChainFiles, u \in PageInusualFiles}
    /\ page = StartPage
    /\ df = NoneTable
    /\ ret = NoRet
    /\ argsort = {}
    /\ kept = NoKept
    /\ callers = <<>>
    /\ series = <<>>

SpecPage == InitPage /\ [][NextPage]_vars

\* rows of the unusual-trade file: premiums written plainly, with a
\* thousands comma, as N/A and left blank, with sides and open/close values
\* of two kinds or blank
InusualFileRows ==
    {InusualFileRow(Str(<<"5">>), Str(<<"a">>), Str(<<"o">>), PutText),
     InusualFileRow(Str(<<"1", ",", "5">>), Str(<<"b">>), Str(<<"c">>), CallText),
     InusualFileRow(Blank, Str(<<"a">>), Blank, PutText),
     InusualFileRow(Str(<<"5">>), Blank, Str(<<"c">>), CallText),
     InusualFileRow(Str(<<"N", "/", "A">>), Str(<<"b">>), Str(<<"o">>), PutText)}

\* a chain file of one complete row, and an unusual-trade file with its full
\* header or without the Side column
InitFlow ==
    /\ files \in {[griegas |-> File(GriegasHeader,
                                    <<ChainFileRow(Str(<<"1">>), CallText, One)>>),
                   inusual |-> File(InusualHeader \ missing, rows)] :
                     missing \in {{}, {"Side"}},
                     rows \in TablesOver(InusualFileRows)}
    /\ page = StartPage
    /\ df = NoneTable
    /\ ret = NoRet
    /\ argsort = {}
    /\ kept = NoKept
    /\ callers = <<>>
    /\ series = <<>>

NextFlow == NextPage

SpecFlow == InitFlow /\ [][NextFlow]_vars

(***************************************************************************)
(* Properties of the application.                                          *)
(***************************************************************************)
\* the chain table as its loader leaves it for the files of this run
ChainLoad == load_and_preprocess_griegas(files.griegas)

\* the chain table cannot be read, or lacks a required column after
\* preprocessing
ChainUnavailable ==
    /\ ChainLoad.status = "ok"
    /\ \/ ~ChainLoad.table.exists
       \/ ~(required_cols_griegas \subseteq ChainLoad.table.columns)

\* the run has come to the explicit no-data state and has called no metric
\* function and rendered nothing from the chain
NoDataState ==
    /\ page.nodata
    /\ page.invoked = <<>>
    /\ page.rendered = {}

\* C21: when the chain table cannot be read or lacks a required column, the
\* finished run is in the explicit no-data state, has invoked no metric
\* function and has rendered nothing derived from the chain; and the chain
\* loader never raises.
C21_UnavailableChainNoData ==
    /\ page.fault # "load_and_preprocess_griegas"
    /\ (page.pc = "done" /\ ChainUnavailable) => NoDataState
    /\ ChainUnavailable => (page.invoked = <<>> /\ page.rendered = {})

\* C23: every slice passed to a metric function is of a single expiration:
\* all its rows carry the same ExpirationDate, none of them a missing one,
\* and it is the date selected when a date was selected.
C23_SingleExpirationSlices ==
    \A k \in DOMAIN page.invoked :
        LET rows == page.invoked[k].rows
        IN /\ \A i \in DOMAIN rows : rows[i].ExpirationDate # NaT
           /\ \A i, j \in DOMAIN rows :
                 rows[i].ExpirationDate = rows[j].ExpirationDate
           /\ page.selected_exp_date # NaT =>
                 \A i \in DOMAIN rows :
                    rows[i].ExpirationDate = page.selected_exp_date

\* the premium of a displayed trade, a missing one taken as 0
PremiumOrZero(r) == IF IsNa(r.Premium) THEN <<0, 1>> ELSE r.Premium

\* the row carries one of the values selected for column c, when any is
\* selected
InSelection(r, c, selection) ==
    selection # {} => (~IsNa(r[c]) /\ r[c] \in selection)

\* C24: the unusual trades displayed are exactly the loaded rows whose
\* premium, a missing one taken as 0, is at least min_premium, whose Side is
\* among the selected sides when any is selected and whose OpenClose is among
\* the selected values when any is selected: an empty selection restricts
\* nothing, a non-empty one excludes the rows that have no value.
C24_DisplayedTrades ==
    page.flow = "table" =>
        LET Passes(r) ==
                /\ PremiumOrZero(r)[1] >= page.min_premium * PremiumOrZero(r)[2]
                /\ InSelection(r, "Side", page.selected_sides)
                /\ InSelection(r, "OpenClose", page.selected_oc)
        IN page.df_inusual_filtered = SelectSeq(page.df_inusual.rows, Passes)

\* trades are displayed with a side selected: a trade without side is left
\* out and a trade without premium is shown
C24_Witness ==
    /\ page.flow = "table"
    /\ page.selected_sides # {}
    /\ \E i \in DOMAIN page.df_inusual.rows : IsNa(page.df_inusual.rows[i].Side)
    /\ \E i \in DOMAIN page.df_inusual_filtered :
          IsNa(page.df_inusual_filtered[i].Premium)
    /\ Len(page.df_inusual_filtered) < Len(page.df_inusual.rows)

\* trades are displayed with no side selected: a trade without side is shown
C24_WitnessEmptySelection ==
    /\ page.flow = "table"
    /\ page.selected_sides = {}
    /\ "Side" \in page.df_inusual.columns
    /\ \E i \in DOMAIN page.df_inusual_filtered :
          IsNa(page.df_inusual_filtered[i].Side)
    /\ page.min_premium > 0
    /\ Len(page.df_inusual_filtered) < Len(page.df_inusual.rows)

\* the unusual-trade table as its loader leaves it for the files of this run
InusualLoad == load_and_preprocess_inusual(files.inusual)

\* load_data has returned in this run
LoadDataReturned == page.pc \in {"loaded", "filtered", "flow", "done"}

\* the table was read and lacks one of its required columns
LacksRequired(t, required) == t.exists /\ ~(required \subseteq t.columns)
EitherLacksRequired ==
    \/ LacksRequired(ChainLoad.table, required_cols_griegas)
    \/ LacksRequired(InusualLoad.table, required_cols_inusual)

\* C27 as stated: load_data returns both tables or (None, None); when either
\* table lacks a required column both are None; and a required column
\* missing only from the unusual-trade table leaves the run without any
\* chain metric.
C27_BothOrNeither ==
    LoadDataReturned =>
        /\ page.df_griegas.exists = page.df_inusual.exists
        /\ EitherLacksRequired =>
              (~page.df_griegas.exists /\ ~page.df_inusual.exists)
        /\ LacksRequired(InusualLoad.table, required_cols_inusual) =>
              page.invoked = <<>>

\* C27, amended: when load_data returns and either table was read without
\* one of its required columns, it has returned (None, None) and the run
\* invokes no metric function; otherwise it has returned each table as its
\* loader returned it, None for a file that could not be read and the table
\* for the other.
C27_NeitherOnMissingColumn ==
    LoadDataReturned =>
        /\ EitherLacksRequired =>
              /\ ~page.df_griegas.exists
              /\ ~page.df_inusual.exists
              /\ page.invoked = <<>>
              /\ page.pc = "done" => page.nodata
        /\ ~EitherLacksRequired =>
              /\ page.df_griegas = ChainLoad.table
              /\ page.df_inusual = InusualLoad.table

\* a finished run over a complete chain with rows of a valid expiration and
\* an unusual-trade file without its Premium column: no data, no metric
C27_Witness ==
    /\ page.pc = "done"
    /\ ChainLoad.table.exists
    /\ required_cols_griegas \subseteq ChainLoad.table.columns
    /\ ExpDates(ChainLoad.table) # {}
    /\ InusualLoad.table.exists
    /\ "Premium" \notin InusualLoad.table.columns
    /\ page.nodata
    /\ page.invoked = <<>>

\* a finished run over a complete chain and an unreadable unusual-trade
\* file: the chain alone is returned and its metrics are computed
C27_WitnessOneUnreadable ==
    /\ page.pc = "done"
    /\ page.df_griegas.exists
    /\ ~page.df_inusual.exists
    /\ page.invoked # <<>>
    /\ page.flow = "error"

====
